---- MODULE Spec2Model ----
(***************************************************************************)
(* State-machine model of the authentication / user-management backend     *)
(* (backend/src: db.ts, auth.ts, routes/auth.ts, routes/users.ts,          *)
(* server.ts).  Every HTTP request is handled by synchronous middleware    *)
(* and synchronous SQLite calls, so one request is one atomic action.      *)
(***************************************************************************)
EXTENDS Integers, Sequences, FiniteSets, TLC

VARIABLES
    users,      \* rows of the SQLite table `users`
    seq,        \* sqlite_sequence of `users` (AUTOINCREMENT high-water mark)
    started,    \* the server process has run ensureInitialAdmin and listens
    now,        \* wall clock, seconds
    issued,     \* tokens the server has signed so far (held by clients)
    lastReq,    \* the operation handled last
    resp,       \* the response written for lastReq
    req_user,   \* req.user as attached by requireAuth for lastReq
    ran,        \* the route handler behind the guards ran for lastReq
    ean,        \* the browser's barcode helper: argument, call and result
    validation, \* a call of validateDoc: label.scheme and what it returned
    doc,        \* LabelDesigner: the label document
    selectedId, \* LabelDesigner: id of the selected element, or null
    zoom,       \* LabelDesigner: scale of the canvas
    moveZoom,   \* LabelDesigner: zoom in the closure of onPointerMoveViewport
    dragRef,    \* LabelDesigner: the drag in progress, or null
    resizeRef,  \* LabelDesigner: the resize in progress, or null
    labelId,    \* LabelDesigner: id of the saved label being edited, or null
    labelName,  \* LabelDesigner: name of the label
    saving,     \* LabelDesigner: the call of saveToApi awaiting the labels API, or null
    previewData, \* LabelDesigner: data of the nomenclature chosen for the preview
    pending,    \* LabelDesigner: calls of generateBarcodeImage awaiting the barcode API
    refresh,    \* LabelDesigner: calls the running refresh() of the effect has yet to make
    uids,       \* number of ids uid() has handed out
    events,     \* number of user events the designer has handled
    lastOp,     \* the handler that ran last
    remote,     \* stations API: uuids of the stations the service holds
    stations,   \* StationsPage: the list shown
    isLoading,  \* StationsPage: the loading indicator
    fetches,    \* StationsPage: fetch calls of the page that have not settled
    sent,       \* StationsPage: number of fetch calls the page has made
    deleted     \* uuids for which deleteStation has succeeded

server == <<users, seq, started, now, issued, lastReq, resp, req_user, ran>>

(* State of the browser pages; the backend never touches it *)
designer ==
    <<doc, selectedId, zoom, moveZoom, dragRef, resizeRef, labelId, labelName,
      saving, previewData, pending, refresh, uids, events, lastOp>>

(* State of the stations page and of the stations API it talks to *)
stationsPage == <<remote, stations, isLoading, fetches, sent, deleted>>

browser == <<ean, validation, designer, stationsPage>>

vars == <<server, browser>>

----------------------------------------------------------------------------
(* Bounds of the exploration *)

MaxId == 3
MaxTokens == 2

(* Program constant: expiresIn "7d" of the signed token, in seconds *)

SEVEN_DAYS == 604800

(* The instants at which the model looks at the clock: a token signed at 0  *)
(* is one second short of its expiry, and at its expiry.                    *)
ClockValues == {0, SEVEN_DAYS - 1, SEVEN_DAYS}

----------------------------------------------------------------------------
(* Strings are sequences of one-character strings, so that trim(), Number() *)
(* and bcrypt are computed rather than assumed.                             *)

admin == <<"a", "d", "m", "i", "n">>
bob == <<"b", "o", "b">>
user == <<"u", "s", "e", "r">>
root == <<"r", "o", "o", "t">>
pw123456 == <<"1", "2", "3", "4", "5", "6">>
pwOther == <<"p", "w">>
Blank == <<" ">>

WhiteSpace == {" ", "\t", "\n"}
Digits == <<"0", "1", "2", "3", "4", "5", "6", "7", "8", "9">>

(* JSON / JavaScript values of a request body field *)
Undef == [t |-> "undefined", v |-> <<>>]
Str(s) == [t |-> "string", v |-> s]
Num(s) == [t |-> "number", v |-> s]

Thrown == [t |-> "throw", v |-> <<>>]

RECURSIVE TrimStart(_)
TrimStart(s) ==
    IF s = <<>> THEN s
    ELSE IF Head(s) \in WhiteSpace THEN TrimStart(Tail(s)) ELSE s

RECURSIVE TrimEnd(_)
TrimEnd(s) ==
    IF s = <<>> THEN s
    ELSE IF s[Len(s)] \in WhiteSpace THEN TrimEnd(SubSeq(s, 1, Len(s) - 1)) ELSE s

Trim(s) == TrimEnd(TrimStart(s))

(* x?.trim(): undefined stays undefined, a string is trimmed, any other     *)
(* value has no trim method and the call throws a TypeError.                *)
OptTrim(x) ==
    IF x.t = "undefined" THEN Undef
    ELSE IF x.t = "string" THEN Str(Trim(x.v))
    ELSE Thrown

(* Only a missing value counts as empty *)
FalsyUndefinedOnly(x) == x.t = "undefined"

(* !x *)
Falsy(x) ==
    \/ x.t = "undefined"
    \/ x.t = "string" /\ x.v = <<>>
    \/ x.t = "number" /\ x.v = <<"0">>

(* The fallback of ?? set to the wrong role *)
CoalesceAdmin(x, d) == IF x.t = "undefined" THEN Str(admin) ELSE x

(* x ?? d *)
Coalesce(x, d) == IF x.t = "undefined" THEN d ELSE x

----------------------------------------------------------------------------
(* bcryptjs *)

hashSync(s) == <<"$2a$12$">> \o s

compareSync(s, h) == h = hashSync(s)

----------------------------------------------------------------------------
(* Number(req.params.id) on the parameters enumerated below: decimal digits *)
(* with an optional sign give an integer, other text gives NaN.             *)

DigitValue(c) == (CHOOSE i \in 1..10 : Digits[i] = c) - 1

IsDigit(c) == \E i \in 1..10 : Digits[i] = c

RECURSIVE DigitsValue(_)
DigitsValue(s) ==
    IF s = <<>> THEN 0
    ELSE 10 * DigitsValue(SubSeq(s, 1, Len(s) - 1)) + DigitValue(s[Len(s)])

NaN == [nan |-> TRUE, n |-> 0]

ToNumber(s) ==
    LET t == Trim(s)
        neg == t # <<>> /\ Head(t) = "-"
        body == IF neg THEN Tail(t) ELSE t
    IN  IF t = <<>> THEN [nan |-> FALSE, n |-> 0]
        ELSE IF body = <<>> \/ \E i \in 1..Len(body) : ~IsDigit(body[i]) THEN NaN
        ELSE [nan |-> FALSE, n |-> IF neg THEN 0 - DigitsValue(body) ELSE DigitsValue(body)]

----------------------------------------------------------------------------
(* The users table (db.ts, CREATE TABLE users)                              *)

Roles == {admin, user}

SelectByLogin(tbl, login) == {r \in tbl : r.login = login}

SelectById(tbl, id) == {r \in tbl : r.id = id}

(* INSERT INTO users (login, password_hash, role): AUTOINCREMENT takes the  *)
(* next id above every id ever used; UNIQUE(login) and CHECK(role) make the *)
(* statement fail and leave the table and the sequence as they were.  The   *)
(* driver's error message is kept as its sequence of words.                 *)
InsertNoUnique(tbl, sq, login, hash, role) ==
    IF role \notin Roles THEN
        [ok |-> FALSE, error |-> <<"CHECK", "constraint", "failed:", "users">>,
         users |-> tbl, seq |-> sq, id |-> 0]
    ELSE
        [ok |-> TRUE, error |-> <<>>,
         users |-> tbl \cup {[id |-> sq + 1, login |-> login,
                              password_hash |-> hash, role |-> role]},
         seq |-> sq + 1, id |-> sq + 1]

(* INTEGER PRIMARY KEY without AUTOINCREMENT: the next id is one above the *)
(* largest id in the table                                                 *)
InsertRowid(tbl, sq, login, hash, role) ==
    LET top == IF tbl = {} THEN 0
               ELSE CHOOSE n \in {r.id : r \in tbl} : \A r \in tbl : r.id <= n
    IN  IF SelectByLogin(tbl, login) # {} \/ role \notin Roles THEN
            [ok |-> FALSE, error |-> <<"constraint", "failed:", "users">>,
             users |-> tbl, seq |-> sq, id |-> 0]
        ELSE
            [ok |-> TRUE, error |-> <<>>,
             users |-> tbl \cup {[id |-> top + 1, login |-> login,
                                  password_hash |-> hash, role |-> role]},
             seq |-> top + 1, id |-> top + 1]

Insert(tbl, sq, login, hash, role) ==
    IF SelectByLogin(tbl, login) # {} THEN
        [ok |-> FALSE, error |-> <<"UNIQUE", "constraint", "failed:", "users.login">>,
         users |-> tbl, seq |-> sq, id |-> 0]
    ELSE IF role \notin Roles THEN
        [ok |-> FALSE, error |-> <<"CHECK", "constraint", "failed:", "users">>,
         users |-> tbl, seq |-> sq, id |-> 0]
    ELSE
        [ok |-> TRUE, error |-> <<>>,
         users |-> tbl \cup {[id |-> sq + 1, login |-> login,
                              password_hash |-> hash, role |-> role]},
         seq |-> sq + 1, id |-> sq + 1]

(* DELETE FROM users WHERE id = ? *)
Delete(tbl, id) ==
    [users |-> {r \in tbl : r.id # id},
     changes |-> Cardinality(SelectById(tbl, id))]

(* SELECT ... ORDER BY id ASC *)
RECURSIVE SelectAllFrom(_, _, _)
SelectAllFrom(tbl, lo, hi) ==
    IF lo > hi THEN <<>>
    ELSE (IF SelectById(tbl, lo) = {} THEN <<>>
          ELSE <<CHOOSE r \in tbl : r.id = lo>>) \o SelectAllFrom(tbl, lo + 1, hi)

SelectAll(tbl, sq) == SelectAllFrom(tbl, 1, sq)

(* A row with the login found: nothing is written *)
ensureInitialAdminInverted(tbl, sq) ==
    IF SelectByLogin(tbl, admin) = {} THEN [users |-> tbl, seq |-> sq, threw |-> FALSE]
    ELSE LET ins == Insert(tbl, sq, admin, hashSync(pw123456), admin)
         IN  [users |-> ins.users, seq |-> ins.seq, threw |-> ~ins.ok]

(* The row with login admin reset to the default password and role *)
ensureInitialAdminReset(tbl, sq) ==
    IF SelectByLogin(tbl, admin) # {} THEN
        [users |-> {IF r.login = admin
                    THEN [r EXCEPT !.password_hash = hashSync(pw123456), !.role = admin]
                    ELSE r : r \in tbl},
         seq |-> sq, threw |-> FALSE]
    ELSE LET ins == Insert(tbl, sq, admin, hashSync(pw123456), admin)
         IN  [users |-> ins.users, seq |-> ins.seq, threw |-> ~ins.ok]

(* threw: the INSERT failed and the exception ends the starting process *)
ensureInitialAdmin(tbl, sq) ==
    IF SelectByLogin(tbl, admin) # {} THEN [users |-> tbl, seq |-> sq, threw |-> FALSE]
    ELSE LET ins == Insert(tbl, sq, admin, hashSync(pw123456), admin)
         IN  [users |-> ins.users, seq |-> ins.seq, threw |-> ~ins.ok]

toPublicUserKeepsHash(u) == u

toPublicUser(u) == [f \in DOMAIN u \ {"password_hash"} |-> u[f]]

----------------------------------------------------------------------------
(* Responses.  Absent parts are empty sequences: cookie is <<>> or <<token>>, *)
(* user is <<>> or <<public user>>, users is <<>> or <<list>>; deleted is -1  *)
(* when the body carries no count; clear is the Set-Cookie that drops the     *)
(* session cookie.                                                            *)

Reply(status, error) ==
    [status |-> status, error |-> error, cookie |-> <<>>,
     clear |-> FALSE, user |-> <<>>, users |-> <<>>, deleted |-> -1]

NoResp == Reply(0, "")

(* server.ts: the final error middleware, reached when a handler throws *)
InternalError == Reply(500, "INTERNAL_ERROR")

Unauthorized == Reply(401, "UNAUTHORIZED")

----------------------------------------------------------------------------
(* auth.ts *)

Secret == "HS256(JWT_SECRET)"

signAuthToken(payload, t) ==
    [sub |-> payload.sub, role |-> payload.role,
     iat |-> t, exp |-> t + SEVEN_DAYS, sig |-> Secret]

jwtDecodeOnly(token, t) == TRUE

(* The signature checked, the expiry ignored *)
jwtVerifyIgnoreExpiration(token, t) == token.sig = Secret

(* jwt.verify: the signature must be the server's and the clock before exp *)
jwtVerify(token, t) == token.sig = Secret /\ t < token.exp

(* req.user taken from the token's payload, without the table *)
requireAuthTrustToken(cookie, tbl, t) ==
    IF cookie = <<>> THEN [pass |-> FALSE, user |-> <<>>, resp |-> Unauthorized]
    ELSE IF ~jwtVerify(cookie[1], t) THEN
        [pass |-> FALSE, user |-> <<>>, resp |-> Unauthorized]
    ELSE [pass |-> TRUE,
          user |-> <<[id |-> cookie[1].sub, login |-> <<>>, role |-> cookie[1].role]>>,
          resp |-> NoResp]

(* requireAuth: pass with req.user set, or a 401 response *)
requireAuth(cookie, tbl, t) ==
    IF cookie = <<>> THEN [pass |-> FALSE, user |-> <<>>, resp |-> Unauthorized]
    ELSE IF ~jwtVerify(cookie[1], t) THEN
        [pass |-> FALSE, user |-> <<>>, resp |-> Unauthorized]
    ELSE IF SelectById(tbl, cookie[1].sub) = {} THEN
        [pass |-> FALSE, user |-> <<>>, resp |-> Unauthorized]
    ELSE [pass |-> TRUE,
          user |-> <<toPublicUser(CHOOSE r \in tbl : r.id = cookie[1].sub)>>,
          resp |-> NoResp]

requireAdminAnyRole(u) ==
    IF u = <<>> THEN [pass |-> FALSE, resp |-> Unauthorized]
    ELSE [pass |-> TRUE, resp |-> NoResp]

(* requireAdmin: reads req.user *)
requireAdmin(u) ==
    IF u = <<>> THEN [pass |-> FALSE, resp |-> Unauthorized]
    ELSE IF u[1].role # admin THEN [pass |-> FALSE, resp |-> Reply(403, "FORBIDDEN")]
    ELSE [pass |-> TRUE, resp |-> NoResp]

----------------------------------------------------------------------------
(* Outcome of one request: the table and sequence it leaves, the response, *)
(* req.user, and whether the guarded route handler ran.                    *)

Outcome(tbl, sq, r, u, handled) ==
    [users |-> tbl, seq |-> sq, resp |-> r, req_user |-> u, ran |-> handled]

(* routes/auth.ts: POST /login *)
loginHandler(body, tbl, sq, t) ==
    LET login == OptTrim(body.login)
        password == body.password
        found == IF login.t = "string" THEN SelectByLogin(tbl, login.v) ELSE {}
    IN  IF login.t = "throw" THEN Outcome(tbl, sq, InternalError, <<>>, TRUE)
        ELSE IF Falsy(login) \/ Falsy(password) THEN
            Outcome(tbl, sq, Reply(400, "INVALID_INPUT"), <<>>, TRUE)
        ELSE IF found = {} THEN
            Outcome(tbl, sq, Reply(401, "INVALID_CREDENTIALS"), <<>>, TRUE)
        ELSE LET row == CHOOSE r \in found : TRUE IN
            IF password.t # "string" THEN  \* bcrypt.compareSync throws on a non-string
                Outcome(tbl, sq, InternalError, <<>>, TRUE)
            ELSE IF ~compareSync(password.v, row.password_hash) THEN
                Outcome(tbl, sq, Reply(401, "INVALID_CREDENTIALS"), <<>>, TRUE)
            ELSE Outcome(tbl, sq,
                    [Reply(200, "") EXCEPT
                        !.cookie = <<signAuthToken([sub |-> row.id, role |-> row.role], t)>>,
                        !.user = <<toPublicUser(row)>>],
                    <<>>, TRUE)

(* POST /logout behind requireAuth, asked without a session *)
logoutGuarded(tbl, sq) == Outcome(tbl, sq, Unauthorized, <<>>, FALSE)

(* routes/auth.ts: POST /logout *)
logoutHandler(tbl, sq) ==
    Outcome(tbl, sq, [Reply(200, "") EXCEPT !.clear = TRUE], <<>>, TRUE)

(* routes/auth.ts: GET /me *)
meHandler(u, tbl, sq) == Outcome(tbl, sq, [Reply(200, "") EXCEPT !.user = u], u, TRUE)

----------------------------------------------------------------------------
(* routes/users.ts *)

(* msg.includes(w), on a message kept as its words *)
Includes(msg, w) == \E i \in 1..Len(msg) : msg[i] = w

(* GET / *)
usersList(u, tbl, sq) ==
    LET rows == SelectAll(tbl, sq)
    IN  Outcome(tbl, sq,
                [Reply(200, "") EXCEPT
                    !.users = <<[i \in 1..Len(rows) |-> toPublicUser(rows[i])]>>],
                u, TRUE)

(* POST / *)
usersCreate(body, u, tbl, sq) ==
    LET login == OptTrim(body.login)
        password == body.password
        role == Coalesce(body.role, Str(user))
    IN  IF login.t = "throw" THEN Outcome(tbl, sq, InternalError, u, TRUE)
        ELSE IF Falsy(login) \/ Falsy(password) THEN
            Outcome(tbl, sq, Reply(400, "INVALID_INPUT"), u, TRUE)
        ELSE IF role # Str(admin) /\ role # Str(user) THEN
            Outcome(tbl, sq, Reply(400, "INVALID_ROLE"), u, TRUE)
        ELSE IF password.t # "string" THEN  \* bcrypt.hashSync throws, outside the try
            Outcome(tbl, sq, InternalError, u, TRUE)
        ELSE LET ins == Insert(tbl, sq, login.v, hashSync(password.v), role.v) IN
            IF ins.ok THEN
                Outcome(ins.users, ins.seq,
                        [Reply(201, "") EXCEPT
                            !.user = <<toPublicUser(
                                CHOOSE r \in ins.users : r.id = ins.id)>>],
                        u, TRUE)
            ELSE IF Includes(ins.error, "UNIQUE") \/ Includes(ins.error, "unique") THEN
                Outcome(tbl, sq, Reply(409, "LOGIN_ALREADY_EXISTS"), u, TRUE)
            ELSE Outcome(tbl, sq, Reply(500, "INTERNAL_ERROR"), u, TRUE)

(* The id compared with the unparsed parameter: never strictly equal *)
IsSelfUnparsed(u, id) == FALSE

(* req.user?.id === id *)
IsSelf(u, id) == u # <<>> /\ u[1].id = id

(* The row deleted before the self check is made *)
usersDeleteThenCheck(param, u, tbl, sq) ==
    LET id == ToNumber(param)
    IN  IF id.nan \/ id.n <= 0 THEN
            Outcome(tbl, sq, Reply(400, "INVALID_ID"), u, TRUE)
        ELSE LET d == Delete(tbl, id.n) IN
            IF IsSelf(u, id.n) THEN
                Outcome(d.users, sq, Reply(400, "CANNOT_DELETE_SELF"), u, TRUE)
            ELSE
                Outcome(d.users, sq, [Reply(200, "") EXCEPT !.deleted = d.changes], u, TRUE)

(* DELETE /:id *)
usersDelete(param, u, tbl, sq) ==
    LET id == ToNumber(param)
    IN  IF id.nan \/ id.n <= 0 THEN
            Outcome(tbl, sq, Reply(400, "INVALID_ID"), u, TRUE)
        ELSE IF IsSelf(u, id.n) THEN
            Outcome(tbl, sq, Reply(400, "CANNOT_DELETE_SELF"), u, TRUE)
        ELSE LET d == Delete(tbl, id.n) IN
            Outcome(d.users, sq, [Reply(200, "") EXCEPT !.deleted = d.changes], u, TRUE)

----------------------------------------------------------------------------
(* Routes: the middleware chain in front of each handler *)

meRoute(req, tbl, sq, t) ==
    LET a == requireAuth(req.cookie, tbl, t)
    IN  IF ~a.pass THEN Outcome(tbl, sq, a.resp, a.user, FALSE)
        ELSE meHandler(a.user, tbl, sq)

usersGetRoute(req, tbl, sq, t) ==
    LET a == requireAuth(req.cookie, tbl, t)
        b == requireAdmin(a.user)
    IN  IF ~a.pass THEN Outcome(tbl, sq, a.resp, a.user, FALSE)
        ELSE IF ~b.pass THEN Outcome(tbl, sq, b.resp, a.user, FALSE)
        ELSE usersList(a.user, tbl, sq)

usersPostRoute(req, tbl, sq, t) ==
    LET a == requireAuth(req.cookie, tbl, t)
        b == requireAdmin(a.user)
    IN  IF ~a.pass THEN Outcome(tbl, sq, a.resp, a.user, FALSE)
        ELSE IF ~b.pass THEN Outcome(tbl, sq, b.resp, a.user, FALSE)
        ELSE usersCreate(req, a.user, tbl, sq)

usersDeleteRoute(req, tbl, sq, t) ==
    LET a == requireAuth(req.cookie, tbl, t)
        b == requireAdmin(a.user)
    IN  IF ~a.pass THEN Outcome(tbl, sq, a.resp, a.user, FALSE)
        ELSE IF ~b.pass THEN Outcome(tbl, sq, b.resp, a.user, FALSE)
        ELSE usersDelete(req.id, a.user, tbl, sq)

----------------------------------------------------------------------------
(* Requests *)

Request(kind, cookie, login, password, role, id) ==
    [kind |-> kind, cookie |-> cookie, login |-> login,
     password |-> password, role |-> role, id |-> id]

Op(kind) == Request(kind, <<>>, Undef, Undef, Undef, <<>>)

(* A token that was not signed by the server *)
Forged ==
    [sub |-> 1, role |-> admin, iat |-> 0, exp |-> 10 * SEVEN_DAYS, sig |-> "HS256(guess)"]

Cookies == {<<>>} \cup {<<tk>> : tk \in issued \cup {Forged}}

LoginInputs == {Undef, Str(Blank), Str(Blank \o admin \o Blank), Str(bob), Num(<<"5">>)}

PasswordInputs == {Undef, Str(<<>>), Str(pw123456), Str(pwOther), Num(<<"5">>)}

RoleInputs == {Undef, Str(admin), Str(root)}

IdParams ==
    {<<Digits[i + 1]>> : i \in 1..MaxId} \cup {<<"0", "1">>, <<"0">>, <<"x">>, <<"-", "1">>}

(* Bodies of POST /api/users and parameters of DELETE /api/users/:id.  The *)
(* guards read the cookie alone, so a request without a server-signed      *)
(* token is sent with one well-formed body or parameter.                   *)
Body(l, p, r) == [login |-> l, password |-> p, role |-> r]

CreateBodies(c) ==
    IF c = <<>> \/ c = <<Forged>> THEN {Body(Str(bob), Str(pwOther), Undef)}
    ELSE {Body(l, p, r) : l \in LoginInputs \ {Undef},
                          p \in {Undef, Str(pwOther), Num(<<"5">>)},
                          r \in RoleInputs}

DeleteParams(c) == IF c = <<>> \/ c = <<Forged>> THEN {<<"1">>} ELSE IdParams

----------------------------------------------------------------------------
(* Actions *)

(* The backend before its first start *)
ServerOff ==
    /\ users = {}
    /\ seq = 0
    /\ started = FALSE
    /\ now = 0
    /\ issued = {}
    /\ lastReq = Op("none")
    /\ resp = NoResp
    /\ req_user = <<>>
    /\ ran = FALSE

(* No page of the browser application is open *)
EanIdle == ean = [from |-> <<>>, in |-> <<>>, op |-> "none", out |-> <<>>]

(* No label has been handed to validateDoc *)
NoValidation == validation = [scheme |-> <<>>, called |-> FALSE, result |-> <<>>]

StationsClosed ==
    /\ remote = {} /\ stations = <<>> /\ isLoading = FALSE
    /\ fetches = {} /\ sent = 0 /\ deleted = {}

(* The designer page is not mounted *)
DesignerClosed ==
    /\ doc = <<>>
    /\ saving = <<>>
    /\ selectedId = <<>>
    /\ zoom = <<>>
    /\ moveZoom = <<>>
    /\ previewData = <<>>
    /\ pending = {}
    /\ refresh = <<>>
    /\ dragRef = <<>>
    /\ resizeRef = <<>>
    /\ labelId = <<>>
    /\ labelName = <<>>
    /\ uids = 0
    /\ events = 0
    /\ lastOp = "none"

Init ==
    /\ ServerOff
    /\ EanIdle
    /\ NoValidation
    /\ DesignerClosed
    /\ StationsClosed

(* server.ts: process start; the database file outlives the process *)
Boot ==
    LET out == ensureInitialAdmin(users, seq)
    IN  /\ out.seq <= MaxId
        /\ users' = out.users
        /\ seq' = out.seq
        /\ started' = ~out.threw
        /\ lastReq' = Op("boot")
        /\ resp' = NoResp
        /\ req_user' = <<>>
        /\ ran' = FALSE
        /\ UNCHANGED <<now, issued, browser>>

(* Time passes between requests *)
Tick ==
    /\ \E t \in ClockValues : t > now /\ now' = t
    /\ lastReq' = Op("tick")
    /\ resp' = NoResp
    /\ req_user' = <<>>
    /\ ran' = FALSE
    /\ UNCHANGED <<users, seq, started, issued, browser>>

(* The server is between requests *)
Idle == lastReq.kind = "none"

(* The response has been sent and the request object dropped *)
Done ==
    /\ ~Idle
    /\ lastReq' = Op("none")
    /\ resp' = NoResp
    /\ req_user' = <<>>
    /\ ran' = FALSE
    /\ UNCHANGED <<users, seq, started, now, issued, browser>>

(* One request handled to completion; a cookie set by the response is kept *)
(* by the client.  What the last request left in (lastReq, resp, req_user, *)
(* ran) is dropped before the next request is taken up, except that one    *)
(* DELETE may directly follow another, so that both requests of two users  *)
(* deleting each other are seen side by side; the table, the sequence, the *)
(* clock and the tokens are the same either way.                           *)
Served(req, out) ==
    /\ started
    /\ Idle \/ (lastReq.kind = "delete" /\ req.kind = "delete")
    /\ out.seq <= MaxId
    /\ Cardinality(issued \cup {out.resp.cookie[i] : i \in 1..Len(out.resp.cookie)})
            <= MaxTokens
    /\ users' = out.users
    /\ seq' = out.seq
    /\ issued' = issued \cup {out.resp.cookie[i] : i \in 1..Len(out.resp.cookie)}
    /\ lastReq' = req
    /\ resp' = out.resp
    /\ req_user' = out.req_user
    /\ ran' = out.ran
    /\ UNCHANGED <<started, now, browser>>

Login ==
    /\ started
    /\ \E l \in LoginInputs : \E p \in PasswordInputs :
          LET req == Request("login", <<>>, l, p, Undef, <<>>)
          IN  Served(req, loginHandler(req, users, seq, now))

Logout ==
    \E c \in {<<>>} \cup {<<tk>> : tk \in issued} :
        LET req == Request("logout", c, Undef, Undef, Undef, <<>>)
        IN  Served(req, logoutHandler(users, seq))

Me ==
    \E c \in Cookies :
        LET req == Request("me", c, Undef, Undef, Undef, <<>>)
        IN  Served(req, meRoute(req, users, seq, now))

ListUsers ==
    \E c \in Cookies :
        LET req == Request("list", c, Undef, Undef, Undef, <<>>)
        IN  Served(req, usersGetRoute(req, users, seq, now))

CreateUser ==
    \E c \in Cookies : \E b \in CreateBodies(c) :
        LET req == Request("create", c, b.login, b.password, b.role, <<>>)
        IN  Served(req, usersPostRoute(req, users, seq, now))

DeleteUser ==
    \E c \in Cookies : \E i \in DeleteParams(c) :
        LET req == Request("delete", c, Undef, Undef, Undef, i)
        IN  Served(req, usersDeleteRoute(req, users, seq, now))

Next ==
    \/ Boot
    \/ Tick
    \/ Login
    \/ Logout
    \/ Me
    \/ ListUsers
    \/ CreateUser
    \/ DeleteUser
    \/ Done

Spec == Init /\ [][Next]_vars

----------------------------------------------------------------------------
(* Vocabulary of the properties *)

GuardedKinds == {"me", "list", "create", "delete"}

AdminKinds == {"list", "create", "delete"}

PublicFields == {"id", "login", "role"}

(* The request carries a server-signed, unexpired token of a row of tbl *)
Authentic(req, tbl, t) ==
    /\ req.cookie # <<>>
    /\ req.cookie[1].sig = Secret
    /\ t < req.cookie[1].exp
    /\ \E r \in tbl : r.id = req.cookie[1].sub

(* The role stored in tbl for the request's caller, <<>> without a row *)
CallerRoles(req, tbl) == {r.role : r \in {x \in tbl : x.id = req.cookie[1].sub}}

(* A body field that is missing or empty *)
Missing(x) == x.t = "undefined" \/ (x.t = "string" /\ x.v = <<>>)

MissingAfterTrim(x) == x.t = "undefined" \/ (x.t = "string" /\ Trim(x.v) = <<>>)

(* The rows of tbl whose login the request's login is, after trimming *)
Matching(req, tbl) ==
    IF req.login.t = "string" THEN {r \in tbl : r.login = Trim(req.login.v)} ELSE {}

(* The password of the request is the one the row's hash was made from *)
PasswordFits(req, r) ==
    req.password.t = "string" /\ r.password_hash = hashSync(req.password.v)

----------------------------------------------------------------------------
(* C1: once ensureInitialAdmin has run, after any sequence of requests the  *)
(* users table holds at least one row whose role is admin.                  *)
C1_AdminExists == started => \E r \in users : r.role = admin

(* The initial admin (id 1) has been deleted by another admin *)
C1_Witness ==
    /\ started
    /\ lastReq.kind = "delete"
    /\ resp.deleted = 1
    /\ \A r \in users : r.id # 1

(* C2: DELETE /api/users/:id by an authenticated admin whose own id the     *)
(* parameter is returns 400 CANNOT_DELETE_SELF and leaves the table as it   *)
(* was, the caller's row included.                                          *)
C2_SelfDeleteRefused ==
    [][(/\ lastReq'.kind = "delete"
        /\ Authentic(lastReq', users, now)
        /\ CallerRoles(lastReq', users) = {admin}
        /\ ToNumber(lastReq'.id) = [nan |-> FALSE, n |-> lastReq'.cookie[1].sub])
       => (/\ resp'.status = 400
           /\ resp'.error = "CANNOT_DELETE_SELF"
           /\ users' = users
           /\ \E r \in users' : r.id = lastReq'.cookie[1].sub)]_vars

(* The guard answered a parameter written with a leading zero *)
C2_Witness ==
    /\ lastReq.kind = "delete"
    /\ resp.error = "CANNOT_DELETE_SELF"
    /\ lastReq.id = <<"0", "1">>
    /\ \E r \in users : r.id = 1

C4_GuardRejects ==
    [][(lastReq'.kind \in GuardedKinds /\ ~Authentic(lastReq', users, now))
       => (/\ resp' = Unauthorized
           /\ ~ran'
           /\ req_user' = <<>>
           /\ users' = users
           /\ seq' = seq
           /\ issued' = issued)]_vars

(* A good token of a user whose row was deleted is turned away *)
C4_Witness ==
    /\ lastReq.kind = "me"
    /\ lastReq.cookie # <<>>
    /\ lastReq.cookie[1].sig = Secret
    /\ now < lastReq.cookie[1].exp
    /\ \A r \in users : r.id # lastReq.cookie[1].sub
    /\ resp = Unauthorized

(* C5: a request to GET, POST or DELETE on /api/users by an authenticated   *)
(* caller whose row has role user at request time gets 403 FORBIDDEN, no    *)
(* user list, and leaves the users table unchanged.                         *)
C5_NonAdminForbidden ==
    [][(/\ lastReq'.kind \in AdminKinds
        /\ Authentic(lastReq', users, now)
        /\ CallerRoles(lastReq', users) = {user})
       => (/\ resp'.status = 403
           /\ resp'.error = "FORBIDDEN"
           /\ resp'.users = <<>>
           /\ resp'.user = <<>>
           /\ ~ran'
           /\ users' = users
           /\ seq' = seq)]_vars

(* A user-role caller was refused the deletion of another row *)
C5_Witness ==
    /\ lastReq.kind = "delete"
    /\ resp.status = 403
    /\ \E r \in users : ToNumber(lastReq.id) = [nan |-> FALSE, n |-> r.id]

(* C6: a login with a login that matches no row and a login with an         *)
(* existing login and a password that is not the row's get the same         *)
(* response: 401 INVALID_CREDENTIALS and no cookie.                         *)
C6_SameFailure ==
    (/\ lastReq.kind = "login"
     /\ ~MissingAfterTrim(lastReq.login)
     /\ lastReq.login.t = "string"
     /\ ~Missing(lastReq.password)
     /\ \A r \in Matching(lastReq, users) : ~PasswordFits(lastReq, r))
    => resp = Reply(401, "INVALID_CREDENTIALS")

(* C7: no user object of a response, and not the one requireAuth attaches   *)
(* to the request, carries a password_hash: each has id, login and role     *)
(* only.                                                                    *)
C7_NoPasswordHash ==
    /\ \A i \in 1..Len(resp.user) : DOMAIN resp.user[i] = PublicFields
    /\ \A i \in 1..Len(resp.users) :
          \A j \in 1..Len(resp.users[i]) : DOMAIN resp.users[i][j] = PublicFields
    /\ \A i \in 1..Len(req_user) : DOMAIN req_user[i] = PublicFields
    /\ \A i \in 1..Len(resp.cookie) : "password_hash" \notin DOMAIN resp.cookie[i]

(* A list of two users has been returned *)
C7_Witness ==
    /\ lastReq.kind = "list"
    /\ resp.users # <<>>
    /\ Len(resp.users[1]) = 2
    /\ req_user # <<>>

(* C8: from the empty table ensureInitialAdmin leaves exactly one row, with *)
(* login admin and role admin, and a run that follows a run adds no row and *)
(* changes none.                                                            *)
C8_InitialAdminOnce ==
    [][/\ (lastReq'.kind = "boot" /\ users = {})
          => (/\ Cardinality(users') = 1
              /\ \A r \in users' : r.login = admin /\ r.role = admin)
       /\ (lastReq'.kind = "boot" /\ lastReq.kind = "boot")
          => (users' = users /\ seq' = seq)]_vars

(* A later run, after tokens were issued, left the single row alone *)
C8_Witness ==
    /\ lastReq.kind = "boot"
    /\ issued # {}
    /\ seq = 1
    /\ Cardinality(users) = 1

(* C9: when two admins each ask for the other's deletion and the first      *)
(* request deletes its target, the second, handled next, is answered 401    *)
(* and deletes nothing.                                                     *)
C9_MutualDelete ==
    [][(/\ lastReq.kind = "delete"
        /\ lastReq'.kind = "delete"
        /\ resp.status = 200
        /\ resp.deleted = 1
        /\ lastReq.cookie # <<>>
        /\ lastReq'.cookie # <<>>
        /\ lastReq'.cookie[1].sig = Secret
        /\ lastReq'.cookie[1].role = admin
        /\ lastReq'.cookie[1].sub # lastReq.cookie[1].sub
        /\ ToNumber(lastReq.id) = [nan |-> FALSE, n |-> lastReq'.cookie[1].sub]
        /\ ToNumber(lastReq'.id) = [nan |-> FALSE, n |-> lastReq.cookie[1].sub])
       => (resp' = Unauthorized /\ users' = users)]_vars

(* The deleted admin's request against the surviving admin was answered 401 *)
C9_Witness ==
    /\ lastReq.kind = "delete"
    /\ resp = Unauthorized
    /\ lastReq.cookie # <<>>
    /\ lastReq.cookie[1].sig = Secret
    /\ lastReq.cookie[1].role = admin
    /\ now < lastReq.cookie[1].exp
    /\ \A r \in users : r.id # lastReq.cookie[1].sub
    /\ \E r \in users : /\ ToNumber(lastReq.id) = [nan |-> FALSE, n |-> r.id]
                        /\ r.role = admin

(* C10: a login sets the session cookie exactly when the trimmed login      *)
(* matches a row and the password fits that row's hash, the token's sub is  *)
(* then that row's id, and a login or password that is missing or empty     *)
(* gets 400 INVALID_INPUT and no cookie.                                    *)
C10_LoginCookie ==
    lastReq.kind = "login" =>
        /\ resp.cookie # <<>>
              <=> \E r \in Matching(lastReq, users) : PasswordFits(lastReq, r)
        /\ resp.cookie # <<>>
              => \E r \in Matching(lastReq, users) : r.id = resp.cookie[1].sub
        /\ (MissingAfterTrim(lastReq.login) \/ Missing(lastReq.password))
              => resp = Reply(400, "INVALID_INPUT")

----------------------------------------------------------------------------
(* C11: in every reachable state of the users table every login is a        *)
(* non-empty string and no two rows have the same login.                    *)
C11_LoginsUnique ==
    /\ \A r \in users : r.login # <<>> /\ Trim(r.login) = r.login
    /\ \A r1 \in users : \A r2 \in users : r1.login = r2.login => r1 = r2

(* A second row has been created next to the first *)
C11_Witness ==
    /\ lastReq.kind = "create"
    /\ resp.status = 201
    /\ Cardinality(users) >= 2

(* C12: no operation changes the login, password_hash or role of a row:     *)
(* a row that is in the table before and after a step is the same row.      *)
C12_RowsImmutable ==
    [][\A r1 \in users : \A r2 \in users' : r2.id = r1.id => r2 = r1]_vars

(* The first row is still there after two other rows came and went *)
C12_Witness ==
    /\ lastReq.kind = "delete"
    /\ resp.deleted = 1
    /\ seq = 3
    /\ \E r \in users : r.id = 1 /\ r.login = admin /\ r.role = admin

(* An admin's POST /api/users whose login and password pass the input check *)
CreateInputOk(req, tbl, t) ==
    /\ req.kind = "create"
    /\ Authentic(req, tbl, t)
    /\ CallerRoles(req, tbl) = {admin}
    /\ req.login.t = "string"
    /\ Trim(req.login.v) # <<>>
    /\ ~Missing(req.password)
    /\ ~(req.password.t = "number" /\ req.password.v = <<"0">>)

C14_TokenSevenDays ==
    (/\ lastReq.kind = "me"
     /\ lastReq.cookie # <<>>
     /\ lastReq.cookie[1].sig = Secret
     /\ \E r \in users : r.id = lastReq.cookie[1].sub)
    => IF now >= lastReq.cookie[1].iat + 7 * 24 * 60 * 60
       THEN resp = Unauthorized /\ ~ran
       ELSE resp.status = 200 /\ ran

(* A token issued at 0 is refused at its expiry while its user exists *)
C14_Witness ==
    /\ lastReq.kind = "me"
    /\ lastReq.cookie # <<>>
    /\ lastReq.cookie[1].sig = Secret
    /\ lastReq.cookie[1].iat = 0
    /\ now = SEVEN_DAYS
    /\ \E r \in users : r.id = lastReq.cookie[1].sub
    /\ resp = Unauthorized

(* The ids of the rows of a table *)
Ids(tbl) == {r.id : r \in tbl}

(* C27: user ids are never reused: an id the table assigns is strictly     *)
(* greater than every id assigned before, also after deletions, so a token *)
(* of a deleted user never authenticates as a user created later.          *)
C27_IdsNeverReused ==
    [][/\ seq' >= seq
       /\ \A r \in users' : r.id <= seq' /\ (r.id \notin Ids(users) => r.id > seq)
       /\ \A tk \in issued :
             tk.sub \notin Ids(users) => ~requireAuth(<<tk>>, users', now').pass]_vars

(* A user has been deleted, a token for that user is still held, and a     *)
(* user created afterwards is in the table                                 *)
C27_Witness ==
    \E tk \in issued :
        /\ tk.sub \notin Ids(users)
        /\ \E r \in users : r.id > tk.sub
        /\ lastReq.kind = "create" /\ resp.status = 201

(* requireAuth lets the token through *)
Accepted(tk, tbl, t) == requireAuth(<<tk>>, tbl, t).pass

(* C28: POST /api/auth/logout changes no server-side state and needs no   *)
(* authentication: it answers 200 with or without a cookie and leaves the *)
(* table, the sequence and the signed tokens as they were; a token issued *)
(* before the logout is accepted by requireAuth afterwards as before, that *)
(* is until it expires or its user is deleted.                            *)
C28_LogoutStateless ==
    [][/\ lastReq'.kind = "logout" =>
             /\ resp'.status = 200 /\ ran'
             /\ users' = users /\ seq' = seq /\ issued' = issued
             /\ started' = started /\ now' = now
             /\ \A tk \in issued : Accepted(tk, users', now') = Accepted(tk, users, now)
       /\ \A tk \in issued' :
             Accepted(tk, users', now') = (now' < tk.exp /\ tk.sub \in Ids(users'))]_vars

(* A logout sent with a session cookie has been answered and the token of *)
(* that cookie is still accepted                                          *)
C28_Witness ==
    /\ lastReq.kind = "logout" /\ lastReq.cookie # <<>>
    /\ resp.status = 200 /\ resp.clear
    /\ Accepted(lastReq.cookie[1], users, now)

----------------------------------------------------------------------------
(***************************************************************************)
(* The EAN-13 helpers of the catalog pages (components/catalog/utils.ts),  *)
(* called by the barcode generator and the packaging form.                 *)
(***************************************************************************)

(* Longest text handed to the helpers *)
MaxEanLen == 14

Null == [t |-> "null", v |-> <<>>]

(* String(n) for a natural number *)
RECURSIVE String(_)
String(n) ==
    IF n < 10 THEN <<Digits[n + 1]>>
    ELSE String(n \div 10) \o <<Digits[(n % 10) + 1]>>

(* The digit class dropping the zero *)
normalizeDigitsNonZero(input) ==
    SelectSeq(input, LAMBDA c : IsDigit(c) /\ c # "0")

(* input.replace(/[^\d]/g, "") *)
normalizeDigits(input) == SelectSeq(input, IsDigit)

(* s.slice(0, n) *)
slice0(s, n) == SubSeq(s, 1, IF Len(s) < n THEN Len(s) ELSE n)

(* Padding put in front *)
padStart(s, n, c) ==
    IF Len(s) >= n THEN s ELSE [i \in 1..(n - Len(s)) |-> c] \o s

(* s.padEnd(n, c) for a one-character c *)
padEnd(s, n, c) ==
    IF Len(s) >= n THEN s ELSE s \o [i \in 1..(n - Len(s)) |-> c]

(* The loop of ean13CheckDigit after its first i rounds: d12[0..i-1] summed *)
RECURSIVE Ean13Sum(_, _)
Ean13Sum(d12, i) ==
    IF i = 0 THEN 0
    ELSE LET n == DigitValue(d12[i])
         IN  Ean13Sum(d12, i - 1) + (IF (i - 1) % 2 = 0 THEN n ELSE n * 3)

(* The check value left unreduced: 10 where the sum is a multiple of ten *)
ean13CheckDigitNoWrap(d12) ==
    IF Len(d12) # 12 THEN Null
    ELSE IF \E i \in 1..12 : ~IsDigit(d12[i]) THEN Null
    ELSE LET sum == Ean13Sum(d12, 12)
             mod == sum % 10
             check == 10 - mod
         IN  Str(String(check))

ean13CheckDigit(d12) ==
    IF Len(d12) # 12 THEN Null
    ELSE IF \E i \in 1..12 : ~IsDigit(d12[i]) THEN Null
    ELSE LET sum == Ean13Sum(d12, 12)
             mod == sum % 10
             check == (10 - mod) % 10
         IN  Str(String(check))

(* Texts with fewer than 12 digits refused instead of padded *)
makeEan13Strict(baseDigits) ==
    LET d == normalizeDigits(baseDigits)
    IN  IF Len(d) = 13 THEN Str(d)
        ELSE IF Len(d) < 12 THEN Null
        ELSE Str(slice0(d, 12) \o ean13CheckDigit(slice0(d, 12)).v)

makeEan13(baseDigits) ==
    LET d == normalizeDigits(baseDigits)
    IN  IF Len(d) = 13 /\ \A i \in 1..13 : IsDigit(d[i]) THEN Str(d)
        ELSE LET d12 == padEnd(slice0(d, 12), 12, "0")
                 cd == ean13CheckDigit(d12)
             IN  IF cd = Null \/ Falsy(cd) THEN Null
                 ELSE Str(d12 \o cd.v)

(* BarcodeGenerator: the isValid memo *)
isValid(format, value) ==
    IF format = "EAN13"
    THEN LET v == makeEan13(normalizeDigits(value))
         IN  ~(v = Null \/ Falsy(v))
    ELSE Len(Trim(value)) > 0

(* Texts given to the helpers: n digits a*i + b (mod 10), and the same     *)
(* with a hyphen in front, in the middle or at the end.                     *)
EanDigits(n, a, b) == [i \in 1..n |-> Digits[((a * i + b) % 10) + 1]]

WithHyphen(s, k) == SubSeq(s, 1, k) \o <<"-">> \o SubSeq(s, k + 1, Len(s))

Hyphenated(s) == {WithHyphen(s, k) : k \in {0, Len(s) \div 2, Len(s)}}

EanInputs ==
    LET plain == {EanDigits(n, a, b) : n \in 0..MaxEanLen, a \in 0..9, b \in 0..9}
    IN  plain \cup UNION {Hyphenated(s) : s \in {x \in plain : Len(x) < MaxEanLen}}

(* A helper call: the text `in`, the function `op` and its result `out`;   *)
(* `from` is the text whose result was stored and is now given again.      *)
EanCall(from, in, op, out) == [from |-> from, in |-> in, op |-> op, out |-> out]

InitEan ==
    /\ ServerOff
    /\ NoValidation
    /\ DesignerClosed
    /\ StationsClosed
    /\ \E s \in EanInputs : ean = EanCall(<<>>, s, "none", <<>>)

(* ean13CheckDigit(text) *)
CheckDigit ==
    /\ ean.op = "none"
    /\ ean' = EanCall(<<>>, ean.in, "ean13CheckDigit", ean13CheckDigit(ean.in))
    /\ UNCHANGED <<server, validation, designer, stationsPage>>

(* BarcodeGenerator / PackagingManager: makeEan13(text) *)
MakeEan ==
    /\ ean.op = "none"
    /\ ean' = EanCall(<<>>, ean.in, "makeEan13", makeEan13(ean.in))
    /\ UNCHANGED <<server, validation, designer, stationsPage>>

(* PackagingManager stores makeEan13(text) as the product's defaultBarcode, *)
(* BarcodeGenerator loads it as its value and calls makeEan13 on it.         *)
MakeEanAgain ==
    /\ ean.op = "makeEan13"
    /\ ean.out # Null
    /\ ean' = EanCall(ean.in, ean.out.v, "makeEan13 again", makeEan13(ean.out.v))
    /\ UNCHANGED <<server, validation, designer, stationsPage>>

(* BarcodeGenerator rendered with the text as its value: isValid, shown   *)
(* as the VALID or INVALID badge                                          *)
Validity ==
    /\ ean.op = "none"
    /\ \E format \in {"EAN13", "CODE128"} :
          ean' = EanCall(<<>>, ean.in, "isValid " \o format, isValid(format, ean.in))
    /\ UNCHANGED <<server, validation, designer, stationsPage>>

NextEan ==
    \/ CheckDigit
    \/ MakeEan
    \/ MakeEanAgain
    \/ Validity

SpecEan == InitEan /\ [][NextEan]_vars

----------------------------------------------------------------------------
(* Vocabulary of the EAN properties *)

DecimalDigits == {"0", "1", "2", "3", "4", "5", "6", "7", "8", "9"}

IsDigitString(s, n) == Len(s) = n /\ \A i \in 1..n : s[i] \in DecimalDigits

(* Sum of the digits of s at the 1-based positions in I *)
RECURSIVE SumAt(_, _)
SumAt(s, I) ==
    IF I = {} THEN 0
    ELSE LET i == CHOOSE j \in I : TRUE
         IN  DigitValue(s[i]) + SumAt(s, I \ {i})

(* 0-based positions 0, 2, .., 10 and 1, 3, .., 11 of the first twelve *)
EvenPositions == {1, 3, 5, 7, 9, 11}
OddPositions == {2, 4, 6, 8, 10, 12}

(* c completes the twelve digits d to a multiple of ten *)
ChecksOut(d, c) ==
    (SumAt(d, EvenPositions) + 3 * SumAt(d, OddPositions) + DigitValue(c)) % 10 = 0

(* The digits of s, in their order *)
RECURSIVE DigitsOf(_)
DigitsOf(s) ==
    IF s = <<>> THEN <<>>
    ELSE (IF Head(s) \in DecimalDigits THEN <<Head(s)>> ELSE <<>>) \o DigitsOf(Tail(s))

(* The first twelve of d, zeros added on the right up to twelve *)
FirstTwelve(d) == [i \in 1..12 |-> IF i <= Len(d) THEN d[i] ELSE "0"]

MakeCalls == {"makeEan13", "makeEan13 again"}

(* C15: for every 12-digit string d, ean13CheckDigit(d) is a single digit c *)
(* with (sum of the digits at even 0-based positions + 3 * sum of those at  *)
(* odd 0-based positions + c) mod 10 = 0; for every input that is not       *)
(* exactly 12 digits it is null.                                            *)
C15_CheckDigit ==
    ean.op = "ean13CheckDigit" =>
        IF IsDigitString(ean.in, 12)
        THEN /\ ean.out.t = "string"
             /\ IsDigitString(ean.out.v, 1)
             /\ ChecksOut(ean.in, ean.out.v[1])
        ELSE ean.out = Null

C15_Witness ==
    /\ ean.op = "ean13CheckDigit"
    /\ IsDigitString(ean.in, 12)
    /\ SumAt(ean.in, EvenPositions) # SumAt(ean.in, OddPositions)
    /\ (SumAt(ean.in, EvenPositions) + 3 * SumAt(ean.in, OddPositions)) % 10 = 0
    /\ ean.out = Str(<<"0">>)

(* C16: with d the digits of s in order, makeEan13(s) is d when d has       *)
(* exactly 13 digits, and otherwise the first 12 digits of d, padded with   *)
(* zeros on the right to 12, followed by ean13CheckDigit of those twelve.   *)
C16_MakeEan13 ==
    ean.op \in MakeCalls =>
        LET d == DigitsOf(ean.in)
        IN  IF Len(d) = 13 THEN ean.out = Str(d)
            ELSE ean.out = Str(FirstTwelve(d) \o ean13CheckDigit(FirstTwelve(d)).v)

C16_Witness ==
    /\ ean.op = "makeEan13"
    /\ Len(DigitsOf(ean.in)) \in 1..11
    /\ Len(ean.in) > Len(DigitsOf(ean.in))
    /\ ean.out.t = "string"
    /\ Len(ean.out.v) = 13
    /\ ean.out.v[12] = "0"
    /\ ean.out.v[1] # "0"

(* C17: makeEan13 returns unchanged every 13-digit string whose last digit  *)
(* is the EAN-13 check digit of its first 12; so for every 12-digit s,      *)
(* makeEan13(makeEan13(s)) = makeEan13(s).                                  *)
C17_Idempotent ==
    /\ (/\ ean.op \in MakeCalls
        /\ IsDigitString(ean.in, 13)
        /\ ChecksOut(SubSeq(ean.in, 1, 12), ean.in[13]))
            => ean.out = Str(ean.in)
    /\ (ean.op = "makeEan13 again" /\ IsDigitString(ean.from, 12))
            => ean.out = Str(ean.in)

C17_Witness ==
    /\ ean.op = "makeEan13 again"
    /\ IsDigitString(ean.from, 12)
    /\ SubSeq(ean.in, 1, 12) = ean.from
    /\ \E i \in 1..6 : ean.in[i] = "0"
    /\ ean.out = Str(ean.in)

----------------------------------------------------------------------------
(***************************************************************************)
(* The label designer (app/components/LabelDesigner.tsx).                  *)
(*                                                                         *)
(* JavaScript numbers are kept in fixed point with one decimal, the step   *)
(* of the centimetre inputs: the field n of a number counts tenths.  NaN   *)
(* is a number of its own.  Text on which no character-level operation is  *)
(* made (ids, types, colours) is a plain string inside Str.                *)
(***************************************************************************)

(* Tenths in a unit *)
Scale == 10

JsNum(n) == [t |-> "number", nan |-> FALSE, n |-> n]

JsNaN == [t |-> "number", nan |-> TRUE, n |-> 0]

(* The numeric literal k, and the literal 0.1 *)
Lit(k) == JsNum(k * Scale)

OneTenth == JsNum(1)

JsBool(b) == [t |-> "boolean", v |-> b]

(* ToNumber of an argument of Math.min / Math.max / Number() *)
ParsedNumber(r) == IF r.nan THEN JsNaN ELSE Lit(r.n)

ToNum(v) ==
    IF v.t = "number" THEN v
    ELSE IF v.t = "string" THEN ParsedNumber(ToNumber(v.v))
    ELSE IF v.t = "boolean" THEN (IF v.v THEN Lit(1) ELSE Lit(0))
    ELSE IF v.t = "null" THEN Lit(0)
    ELSE JsNaN

(* The lesser and the greater of two numbers; NaN if either is NaN *)
Lesser(x, y) == IF x.nan \/ y.nan THEN JsNaN ELSE IF x.n < y.n THEN x ELSE y

Greater(x, y) == IF x.nan \/ y.nan THEN JsNaN ELSE IF x.n > y.n THEN x ELSE y

MathMin(a, b) == Lesser(ToNum(a), ToNum(b))

MathMax(a, b) == Greater(ToNum(a), ToNum(b))

clamp(n, min, max) == MathMax(min, MathMin(max, n))

isFiniteNumber(v) == v.t = "number" /\ ~v.nan

safeNumber(v, fallback) == IF isFiniteNumber(v) THEN v ELSE fallback

(* Boolean(v) *)
Truthy(v) ==
    IF v.t = "undefined" \/ v.t = "null" THEN FALSE
    ELSE IF v.t = "number" THEN ~v.nan /\ v.n # 0
    ELSE IF v.t = "string" THEN v.v # <<>>
    ELSE IF v.t = "boolean" THEN v.v
    ELSE TRUE

(* a || b *)
Or(a, b) == IF Truthy(a) THEN a ELSE b

DPI_203 == 203

(* 1 / CM_TO_INCH, in hundredths: 2.54 centimetres to the inch *)
CM_PER_INCH_X100 == 254

(* Math.round(cm * CM_TO_INCH * dpi) for finite cm and dpi: the floor of   *)
(* the quotient plus one half.  cm and dpi are in tenths, so the quotient  *)
(* is cm.n * dpi.n * 100 / (254 * Scale * Scale).                          *)
cmToPx(cm, dpi) ==
    LET num == cm.n * dpi.n
        den == CM_PER_INCH_X100 * ((Scale * Scale) \div 100)
    IN  Lit((2 * num + den) \div (2 * den))


CODE128 == <<"C", "O", "D", "E", "1", "2", "8">>

FontWeights == {Lit(400), Lit(500), Lit(600), Lit(700)}

(* The callback of obj.elements.map in validateDoc *)
(* The fields of a text, a rect and a barcode element over ...base *)
validateTyped(e, base) ==
    IF e.type = Str("text") THEN
        [text |-> IF e.text.t = "string" THEN e.text ELSE Str("Tekst"),
         fontSize |-> clamp(safeNumber(e.fontSize, Lit(14)), Lit(4), Lit(200)),
         color |-> IF e.color.t = "string" THEN e.color ELSE Str("#000000"),
         fontWeight |-> IF ToNum(e.fontWeight) \in FontWeights
                        THEN ToNum(e.fontWeight) ELSE Lit(600)] @@ base
    ELSE IF e.type = Str("rect") THEN
        [fill |-> IF e.fill.t = "string" THEN e.fill ELSE Str("transparent"),
         borderColor |-> IF e.borderColor.t = "string" THEN e.borderColor
                         ELSE Str("#000000"),
         borderWidth |-> clamp(safeNumber(e.borderWidth, Lit(1)), Lit(0), Lit(50)),
         borderRadius |-> clamp(safeNumber(e.borderRadius, Lit(0)), Lit(0), Lit(500))]
            @@ base
    ELSE IF e.type = Str("barcode") THEN
        [value |-> IF e.value.t = "string" THEN e.value ELSE Str("123456789012"),
         barcodeType |-> Or(e.barcodeType, Str(CODE128)),
         showText |-> IF e.showText.t = "boolean" THEN e.showText ELSE JsBool(TRUE),
         templateId |-> e.templateId,
         imageData |-> e.imageData,
         error |-> e.error] @@ base
    ELSE Null

validateElement(e) ==
    IF ~Truthy(e) \/ e.t # "object" THEN Null
    ELSE IF e.id.t # "string" \/ e.type.t # "string" THEN Null
    ELSE validateTyped(e,
             [id |-> e.id,
              type |-> e.type,
              x |-> safeNumber(e.x, Lit(0)),
              y |-> safeNumber(e.y, Lit(0)),
              w |-> clamp(safeNumber(e.w, Lit(40)), Lit(1), Lit(5000)),
              h |-> clamp(safeNumber(e.h, Lit(20)), Lit(1), Lit(5000)),
              rotation |-> clamp(safeNumber(e.rotation, Lit(0)), Lit(-360), Lit(360))])

validateDoc(input) ==
    IF ~Truthy(input) \/ input.t # "object" THEN Null
    ELSE IF input.version # Lit(1) THEN Null
    ELSE IF ~Truthy(input.canvas) \/ input.canvas.t # "object" THEN Null
    ELSE IF input.elements.t # "array" THEN Null
    ELSE
      LET canvas == input.canvas
          dpi == safeNumber(canvas.dpi, Lit(DPI_203))
          widthCm == safeNumber(canvas.widthCm, Lit(10))
          heightCm == safeNumber(canvas.heightCm, Lit(6))
          width == Or(canvas.width, cmToPx(widthCm, dpi))
          height == Or(canvas.height, cmToPx(heightCm, dpi))
          mapped == [i \in 1..Len(input.elements.items) |->
                        validateElement(input.elements.items[i])]
      IN  [version |-> Lit(1),
           canvas |-> [width |-> clamp(width, Lit(10), Lit(5000)),
                       height |-> clamp(height, Lit(10), Lit(5000)),
                       widthCm |-> clamp(widthCm, OneTenth, Lit(100)),
                       heightCm |-> clamp(heightCm, OneTenth, Lit(100)),
                       dpi |-> clamp(dpi, Lit(72), Lit(1200)),
                       background |-> IF canvas.background.t = "string"
                                      THEN canvas.background ELSE Str("#ffffff"),
                       showGrid |-> JsBool(Truthy(canvas.showGrid)),
                       gridSize |-> clamp(safeNumber(canvas.gridSize, Lit(16)),
                                          Lit(4), Lit(64))],
           elements |-> SelectSeq(mapped, LAMBDA x : x # Null)]


----------------------------------------------------------------------------
(* label.scheme as the labels API returns it: any JSON value *)

(* Longest elements array of a scheme given to validateDoc *)
MaxItems == 2

abc == <<"a", "b", "c">>

twenty == <<"2", "0">>

(* Values of a numeric field of the canvas / of an element *)
JsonNumbers == {Undef, JsNum(0), Lit(50), Str(abc)}

(* With a value above the upper limit of the field *)
PxNumbers == JsonNumbers \cup {Lit(6000)}

CmNumbers == JsonNumbers \cup {Lit(150)}

DpiNumbers == JsonNumbers \cup {Lit(1500)}

ElementNumbers == JsonNumbers \cup {Lit(6000), Lit(-400), Str(twenty)}

ElementTypes == {Str("text"), Str("rect"), Str("barcode"), Str("image"), Undef}

CanvasIn(width, height, widthCm, heightCm, dpi, gridSize) ==
    [t |-> "object", width |-> width, height |-> height, widthCm |-> widthCm,
     heightCm |-> heightCm, dpi |-> dpi, gridSize |-> gridSize,
     background |-> Str("#ffffff"), showGrid |-> JsBool(TRUE)]

(* An element whose numeric fields all hold p; the other fields are given  *)
(* unless p is undefined.                                                  *)
ElementIn(id, type, p) ==
    LET q(v) == IF p = Undef THEN Undef ELSE v
    IN  [t |-> "object", id |-> Str(id), type |-> type,
         x |-> p, y |-> p, w |-> p, h |-> p, rotation |-> p,
         text |-> q(Str("text")), fontSize |-> p, color |-> q(Str("#112233")),
         fontWeight |-> p,
         fill |-> q(Str("#445566")), borderColor |-> q(Str("#778899")),
         borderWidth |-> p, borderRadius |-> p,
         value |-> q(Str("4601234567890")), barcodeType |-> q(Str(abc)),
         showText |-> q(JsBool(FALSE)), templateId |-> p,
         imageData |-> Undef, error |-> Undef]

ElementIds == <<"e1", "e2", "e3", "e4">>

ItemSamples == (ElementTypes \X ElementNumbers) \cup {<<Null, Null>>}

ItemIn(i, smp) == IF smp[1] = Null THEN Null ELSE ElementIn(ElementIds[i], smp[1], smp[2])

(* validateDoc maps every item of the array apart: one item takes every   *)
(* sample, the items around it are all null or all a regular rect.         *)
ItemFill == {<<Null, Null>>, <<Str("rect"), Lit(50)>>}

ItemArrays ==
    {[i \in 1..k |-> ItemIn(i, IF i = j THEN smp ELSE fill)] :
        k \in 0..MaxItems, j \in 1..MaxItems, smp \in ItemSamples, fill \in ItemFill}

SchemeIn(version, canvas, elements) ==
    [t |-> "object", version |-> version, canvas |-> canvas, elements |-> elements]

JsArray(items) == [t |-> "array", items |-> items]

DefaultCanvasIn == CanvasIn(Lit(800), Lit(480), Lit(10), Lit(6), Lit(DPI_203), Lit(16))

(* validateDoc works on the width, on the height and on every element     *)
(* apart, so the fields behind the width and those behind the height are   *)
(* varied under an empty elements array, and the elements under one canvas. *)
Schemes ==
    {Null, Undef, Str(abc),
     SchemeIn(Lit(2), DefaultCanvasIn, JsArray(<<>>)),
     SchemeIn(Undef, DefaultCanvasIn, JsArray(<<>>)),
     SchemeIn(Lit(1), Undef, JsArray(<<>>)),
     SchemeIn(Lit(1), Str(abc), JsArray(<<>>)),
     SchemeIn(Lit(1), DefaultCanvasIn, Undef)}
    \cup {SchemeIn(Lit(1), CanvasIn(w, Lit(480), wc, Lit(6), d, g), JsArray(<<>>)) :
              w \in PxNumbers, wc \in CmNumbers, d \in DpiNumbers, g \in PxNumbers}
    \cup {SchemeIn(Lit(1), CanvasIn(Lit(800), h, Lit(10), hc, d, Lit(16)), JsArray(<<>>)) :
              h \in PxNumbers, hc \in CmNumbers, d \in DpiNumbers}
    \cup {SchemeIn(Lit(1), DefaultCanvasIn, JsArray(a)) : a \in ItemArrays}

InitValidate ==
    /\ ServerOff
    /\ EanIdle
    /\ DesignerClosed
    /\ StationsClosed
    /\ \E sch \in Schemes :
          validation = [scheme |-> sch, called |-> FALSE, result |-> <<>>]

(* loadLabelEntry: const v = validateDoc(label.scheme) *)
Validate ==
    /\ ~validation.called
    /\ validation' = [scheme |-> validation.scheme, called |-> TRUE,
                      result |-> validateDoc(validation.scheme)]
    /\ UNCHANGED <<server, ean, designer, stationsPage>>

NextValidate == Validate

SpecValidate == InitValidate /\ [][NextValidate]_vars

----------------------------------------------------------------------------
(* Vocabulary of the document properties *)

(* A finite number between the literals lo and hi *)
Within(v, lo, hi) == v.t = "number" /\ ~v.nan /\ lo.n <= v.n /\ v.n <= hi.n

CanvasInBounds(c) ==
    /\ Within(c.width, Lit(10), Lit(5000))
    /\ Within(c.height, Lit(10), Lit(5000))
    /\ Within(c.widthCm, OneTenth, Lit(100))
    /\ Within(c.heightCm, OneTenth, Lit(100))
    /\ Within(c.dpi, Lit(72), Lit(1200))
    /\ Within(c.gridSize, Lit(4), Lit(64))

ElementInBounds(e) ==
    /\ e.type \in {Str("text"), Str("rect"), Str("barcode")}
    /\ Within(e.w, Lit(1), Lit(5000))
    /\ Within(e.h, Lit(1), Lit(5000))
    /\ Within(e.rotation, Lit(-360), Lit(360))
    /\ e.type = Str("text") => Within(e.fontSize, Lit(4), Lit(200))

(* C18: every document validateDoc returns has canvas width and height in  *)
(* [10, 5000], widthCm and heightCm in [0.1, 100], dpi in [72, 1200],      *)
(* gridSize in [4, 64], every element's w and h in [1, 5000], rotation in  *)
(* [-360, 360], every text element's fontSize in [4, 200], and only        *)
(* elements of type text, rect or barcode.                                 *)
C18_ValidatedInBounds ==
    (validation.called /\ validation.result # Null) =>
        /\ CanvasInBounds(validation.result.canvas)
        /\ \A i \in 1..Len(validation.result.elements) :
              ElementInBounds(validation.result.elements[i])

----------------------------------------------------------------------------
(***************************************************************************)
(* The designer component: its state hooks, the handlers of the toolbar,   *)
(* the layer list, the canvas and the side panels.                         *)
(***************************************************************************)

(* User events handled in one exploration *)
MaxEvents == 3

(* Most elements a document is given through the toolbar *)
MaxElements == 3

(* uid(): an id not handed out before *)
uid(k) == Str(ToString(k + 1))

Add(a, b) == IF a.nan \/ b.nan THEN JsNaN ELSE JsNum(a.n + b.n)

Sub(a, b) == IF a.nan \/ b.nan THEN JsNaN ELSE JsNum(a.n - b.n)

Neg(a) == IF a.nan THEN JsNaN ELSE JsNum(0 - a.n)

(* a / b for a non-zero b, to the tenth *)
Div(a, b) == IF a.nan \/ b.nan THEN JsNaN ELSE JsNum((a.n * Scale) \div b.n)

defaultDoc(k) ==
    [version |-> Lit(1),
     canvas |-> [width |-> cmToPx(Lit(10), Lit(DPI_203)),
                 height |-> cmToPx(Lit(6), Lit(DPI_203)),
                 widthCm |-> Lit(10),
                 heightCm |-> Lit(6),
                 dpi |-> Lit(DPI_203),
                 background |-> Str("#ffffff"),
                 showGrid |-> JsBool(TRUE),
                 gridSize |-> Lit(16)],
     elements |-> <<
         [id |-> uid(k), type |-> Str("rect"),
          x |-> Lit(32), y |-> Lit(32), w |-> Lit(280), h |-> Lit(120),
          rotation |-> Lit(0),
          fill |-> Str("transparent"), borderColor |-> Str("#000000"),
          borderWidth |-> Lit(2), borderRadius |-> Lit(0)],
         [id |-> uid(k + 1), type |-> Str("text"),
          x |-> Lit(56), y |-> Lit(56), w |-> Lit(240), h |-> Lit(48),
          rotation |-> Lit(0),
          text |-> Str("Primer etiketki"), fontSize |-> Lit(20),
          color |-> Str("#000000"), fontWeight |-> Lit(700)] >>]

(* doc.elements[doc.elements.length - 1]?.id ?? null *)
LastId(elements) == IF elements = <<>> THEN Null ELSE elements[Len(elements)].id

(* The selection left as the handler set it *)
RepairNever(elements, sel) == sel

(* The effect on [doc.elements, selectedId]: a selection that names no     *)
(* element moves to the last element.  It runs with the render that        *)
(* follows every change, before the next event is taken.                   *)
RepairSelection(elements, sel) ==
    IF sel # Null /\ ~\E i \in 1..Len(elements) : elements[i].id = sel
    THEN LastId(elements) ELSE sel

(* d.elements.map(e => e.id === id ? f(e) : e) *)
MapElement(d, id, f(_)) ==
    [d EXCEPT !.elements =
        [i \in 1..Len(d.elements) |->
            IF d.elements[i].id = id THEN f(d.elements[i]) ELSE d.elements[i]]]

(* [...d.elements, el] *)
Append1(d, el) == [d EXCEPT !.elements = Append(d.elements, el)]

(* Ids of the nomenclatures loadData has stored; previewData is held as    *)
(* the id of the nomenclature it was made from, "" for DEFAULT_PREVIEW_DATA *)
nomenclatures == {"1"}

(* barcodeTemplates as loadData has stored them *)
EAN13 == <<"E", "A", "N", "1", "3">>

barcodeTemplates ==
    <<[id |-> Lit(1), name |-> Str(CODE128)], [id |-> Lit(2), name |-> Str(EAN13)]>>

(* barcodeTemplates.find(t => t.name === name) *)
findTemplate(name) ==
    IF \E i \in 1..Len(barcodeTemplates) : barcodeTemplates[i].name = name
    THEN barcodeTemplates[CHOOSE i \in 1..Len(barcodeTemplates) :
                              /\ barcodeTemplates[i].name = name
                              /\ \A j \in 1..(i - 1) : barcodeTemplates[j].name # name]
    ELSE Undef

addText(k) ==
    [id |-> uid(k), type |-> Str("text"),
     x |-> Lit(40), y |-> Lit(40), w |-> Lit(260), h |-> Lit(44), rotation |-> Lit(0),
     text |-> Str("Novyi tekst"), fontSize |-> Lit(20), color |-> Str("#000000"),
     fontWeight |-> Lit(600)]

addRect(k) ==
    [id |-> uid(k), type |-> Str("rect"),
     x |-> Lit(48), y |-> Lit(104), w |-> Lit(240), h |-> Lit(120), rotation |-> Lit(0),
     fill |-> Str("#0B1220"), borderColor |-> Str("#334155"),
     borderWidth |-> Lit(2), borderRadius |-> Lit(14)]

addBarcode(k, template) ==
    [id |-> uid(k), type |-> Str("barcode"),
     x |-> Lit(48), y |-> Lit(240), w |-> Lit(260), h |-> Lit(80), rotation |-> Lit(0),
     value |-> Str("{{ barcode }}"), barcodeType |-> template.name,
     showText |-> JsBool(TRUE), templateId |-> template.id,
     imageData |-> Undef, error |-> Undef]

addAttribute(k, attributeKey) ==
    [id |-> uid(k), type |-> Str("text"),
     x |-> Lit(40), y |-> Lit(40), w |-> Lit(260), h |-> Lit(36), rotation |-> Lit(0),
     text |-> Str("{{" \o attributeKey \o "}}"), fontSize |-> Lit(14),
     color |-> Str("#000000"), fontWeight |-> Lit(500)]

(* ({ ...e, ...patch }) on the selected element *)
updateSelected(d, sel, patch) ==
    IF sel = Null THEN d
    ELSE MapElement(d, sel, LAMBDA e : patch @@ e)

deleteSelected(d, sel) ==
    IF sel = Null THEN d
    ELSE [d EXCEPT !.elements = SelectSeq(d.elements, LAMBDA e : e.id # sel)]

(* d.elements.findIndex(e => e.id === id), 0-based, -1 when absent *)
findIndex(elements, id) ==
    IF \E i \in 1..Len(elements) : elements[i].id = id
    THEN (CHOOSE i \in 1..Len(elements) :
              /\ elements[i].id = id
              /\ \A j \in 1..(i - 1) : elements[j].id # id) - 1
    ELSE -1

(* copy.splice(idx, 1) on a 0-based idx: the array without that item *)
spliceOut(a, idx) == SubSeq(a, 1, idx) \o SubSeq(a, idx + 2, Len(a))

(* copy.splice(idx, 0, item) on a 0-based idx *)
spliceIn(a, idx, item) == SubSeq(a, 1, idx) \o <<item>> \o SubSeq(a, idx + 1, Len(a))

(* The layer taken out and put back at its own index *)
moveLayerInPlace(d, sel, dir) ==
    IF sel = Null THEN d
    ELSE LET idx == findIndex(d.elements, sel)
             nextIdx == IF dir = "up" THEN idx + 1 ELSE idx - 1
         IN  IF idx < 0 THEN d
             ELSE IF nextIdx < 0 \/ nextIdx >= Len(d.elements) THEN d
             ELSE [d EXCEPT !.elements =
                      spliceIn(spliceOut(d.elements, idx), idx, d.elements[idx + 1])]

moveLayer(d, sel, dir) ==
    IF sel = Null THEN d
    ELSE LET idx == findIndex(d.elements, sel)
             nextIdx == IF dir = "up" THEN idx + 1 ELSE idx - 1
         IN  IF idx < 0 THEN d
             ELSE IF nextIdx < 0 \/ nextIdx >= Len(d.elements) THEN d
             ELSE [d EXCEPT !.elements =
                      spliceIn(spliceOut(d.elements, idx), nextIdx, d.elements[idx + 1])]

(* rotatePoint for the angles the designer is taken through here, whole    *)
(* multiples of 90 degrees, where the cosine and the sine are 0, 1 or -1   *)
(* up to the rounding of Math.cos and Math.sin.                            *)
rotatePoint(x, y, angleDeg) ==
    LET quarter == ((angleDeg.n \div Scale) % 360) \div 90
    IN  CASE quarter = 0 -> [x |-> x, y |-> y]
          [] quarter = 1 -> [x |-> Neg(y), y |-> x]
          [] quarter = 2 -> [x |-> Neg(x), y |-> Neg(y)]
          [] quarter = 3 -> [x |-> y, y |-> Neg(x)]

(* The resize branch of onPointerMove: the box of resize.initialElement    *)
(* moved by the pointer's way since the press.                             *)
resizedBox(resize, e, z) ==
    LET el == resize.initialElement
        globalDx == Div(Sub(e.clientX, resize.startX), z)
        globalDy == Div(Sub(e.clientY, resize.startY), z)
        localDelta == rotatePoint(globalDx, globalDy, Neg(el.rotation))
        handle == resize.handle
        wE == IF Includes(handle, "e") THEN MathMax(Lit(1), Add(el.w, localDelta.x)) ELSE el.w
        newW == IF Includes(handle, "w") THEN MathMax(Lit(1), Sub(el.w, localDelta.x)) ELSE wE
        shiftW == IF Includes(handle, "w") /\ newW # el.w
                  THEN rotatePoint(localDelta.x, Lit(0), el.rotation)
                  ELSE [x |-> Lit(0), y |-> Lit(0)]
        hS == IF Includes(handle, "s") THEN MathMax(Lit(1), Add(el.h, localDelta.y)) ELSE el.h
        newH == IF Includes(handle, "n") THEN MathMax(Lit(1), Sub(el.h, localDelta.y)) ELSE hS
        shiftN == IF Includes(handle, "n") /\ newH # el.h
                  THEN rotatePoint(Lit(0), localDelta.y, el.rotation)
                  ELSE [x |-> Lit(0), y |-> Lit(0)]
    IN  [x |-> Add(Add(el.x, shiftW.x), shiftN.x),
         y |-> Add(Add(el.y, shiftW.y), shiftN.y),
         w |-> newW,
         h |-> newH]

(* onPointerMove: a resize in progress comes first, then a drag *)
onPointerMove(d, drag, resize, z, e) ==
    IF resize # Null /\ resize.active
    THEN LET box == resizedBox(resize, e, z)
         IN  MapElement(d, resize.initialElement.id,
                        LAMBDA curr : [curr EXCEPT !.x = box.x, !.y = box.y,
                                                   !.w = box.w, !.h = box.h])
    ELSE IF drag = Null \/ ~drag.active THEN d
    ELSE MapElement(d, drag.elementId,
                    LAMBDA el : [el EXCEPT !.x = Add(el.x, Div(e.movementX, z)),
                                           !.y = Add(el.y, Div(e.movementY, z))])


----------------------------------------------------------------------------
(* What the user and the labels API feed the designer *)

(* Number(e.target.value) of a number input of the side panels *)
PanelNumbers == {Lit(0), Lit(450)}

PanelCm == Lit(15)

PanelDpi == Lit(300)

(* Resize handles taken: between them every branch of the resize *)
Handles == {<<"s", "e">>, <<"n", "w">>}

(* Where the pointer is pressed, and the pointer moves that follow *)
PressAt == [clientX |-> Lit(100), clientY |-> Lit(100)]

PointerMoves ==
    {[clientX |-> Lit(130), clientY |-> Lit(140), movementX |-> Lit(30), movementY |-> Lit(40)],
     [clientX |-> Lit(-900), clientY |-> Lit(-900),
      movementX |-> Lit(-1000), movementY |-> Lit(-1000)]}

(* savedLabels: one label whose scheme lies outside the limits of          *)
(* validateDoc, one whose scheme is no document                            *)
savedLabels ==
    {[id |-> Lit(7), name |-> Str("A"),
      scheme |-> SchemeIn(Lit(1), DefaultCanvasIn,
                     JsArray(<<ElementIn("e1", Str("text"), Lit(6000)),
                               ElementIn("e2", Str("barcode"), Lit(-400))>>))],
     [id |-> Lit(8), name |-> Str("B"), scheme |-> Str(abc)]}

GeometryPatches ==
    UNION {{[x |-> v], [y |-> v], [w |-> MathMax(Lit(1), v)], [h |-> MathMax(Lit(1), v)],
            [rotation |-> v]} : v \in PanelNumbers}

TextPatches ==
    {[text |-> Str("abc")], [fontWeight |-> ToNum(Str(<<"4", "0", "0">>))],
     [color |-> Str("#ff0000")]}
    \cup {[fontSize |-> v] : v \in PanelNumbers}

RectPatches ==
    {[fill |-> Str("#ff0000")], [borderColor |-> Str("#00ff00")]}
    \cup {[borderWidth |-> v] : v \in PanelNumbers}
    \cup {[borderRadius |-> v] : v \in PanelNumbers}

BarcodePatches ==
    {[value |-> Str("4601234567890")], [showText |-> JsBool(FALSE)]}
    \cup {[barcodeType |-> barcodeTemplates[i].name,
           templateId |-> findTemplate(barcodeTemplates[i].name).id,
           imageData |-> Undef] : i \in 1..Len(barcodeTemplates)}

----------------------------------------------------------------------------
(* Handlers of the designer *)

(* useState initialisers of the component *)
InitDesigner ==
    /\ ServerOff
    /\ EanIdle
    /\ NoValidation
    /\ StationsClosed
    /\ doc = defaultDoc(0)
    /\ selectedId = LastId(defaultDoc(0).elements)
    /\ zoom = Lit(1)
    /\ moveZoom = Lit(1)
    /\ previewData = "1"
    /\ pending = {}
    /\ refresh = <<>>
    /\ dragRef = Null
    /\ resizeRef = Null
    /\ labelId = Null
    /\ labelName = Str("Novyi maket")
    /\ saving = Null
    /\ uids = 2
    /\ events = 0
    /\ lastOp = "mount"

(* doc.elements.find(e => e.id === selectedId) ?? null *)
selected ==
    IF selectedId # Null /\ findIndex(doc.elements, selectedId) >= 0
    THEN doc.elements[findIndex(doc.elements, selectedId) + 1]
    ELSE Null

(* No pointer button is down: the canvas holds the pointer capture while   *)
(* one is, so the toolbar and the panels get their input between presses.  *)
Released == dragRef = Null /\ resizeRef = Null

(* The template refresh() looks up for a barcode: by templateId when it   *)
(* has one, by barcodeType otherwise                                       *)
findTemplateById(id) ==
    IF \E i \in 1..Len(barcodeTemplates) : barcodeTemplates[i].id = id
    THEN barcodeTemplates[CHOOSE i \in 1..Len(barcodeTemplates) :
                              /\ barcodeTemplates[i].id = id
                              /\ \A j \in 1..(i - 1) : barcodeTemplates[j].id # id]
    ELSE Undef

templateOf(b) ==
    IF Truthy(b.templateId) THEN findTemplateById(b.templateId)
    ELSE findTemplate(b.barcodeType)

(* A call generateBarcodeImage(template, elementId) that awaits the API;   *)
(* loop tells that the running refresh() awaits it.  Equal calls in flight *)
(* are held once.                                                          *)
Call(template, elementId, loop) ==
    [template |-> template, elementId |-> elementId, loop |-> loop]

(* response.png for template.structure *)
png(template) == Str(<<"p", "n", "g", ":">> \o template.name.v)

NoImage(el) == el.type = Str("barcode") /\ ~Truthy(el.imageData)

(* The calls refresh() goes through: the barcodes of the render without    *)
(* imageData whose template is found, in the order of the document         *)
CallsFor(barcodes) ==
    [i \in 1..Len(barcodes) |-> Call(templateOf(barcodes[i]), barcodes[i].id, TRUE)]

refreshCalls(d) ==
    CallsFor(SelectSeq(d.elements, LAMBDA el : NoImage(el) /\ templateOf(el) # Undef))

(* The dependencies of the effect, barcodeTemplates and the callback apart *)
refreshDeps(d, data) ==
    <<data, Len(d.elements), \E i \in 1..Len(d.elements) : NoImage(d.elements[i])>>

(* refresh() runs up to its first await, or on from one: the next call is  *)
(* made, the others wait                                                   *)
refreshNext(calls, todo) ==
    IF todo = <<>> THEN [pending |-> calls, refresh |-> <<>>]
    ELSE [pending |-> calls \cup {Head(todo)}, refresh |-> Tail(todo)]

(* The cleanup of the effect sets active to false: a refresh() that awaits *)
(* a call ends when the call returns                                       *)
refreshCleanup(calls) == {[c EXCEPT !.loop = FALSE] : c \in calls}

(* The effect after a render: when a dependency differs from the render    *)
(* before, the cleanup and a new refresh() over the new document           *)
refreshEffect(calls, todo, d0, data0, d1, data1) ==
    IF refreshDeps(d1, data1) = refreshDeps(d0, data0)
    THEN [pending |-> calls, refresh |-> todo]
    ELSE refreshNext(refreshCleanup(calls), refreshCalls(d1))

(* generateBarcodeImage after its await: the document with the answer of   *)
(* the API for the call, an image, an answer without one or an error       *)
generateBarcodeImage(d, call, outcome) ==
    IF outcome = "png"
    THEN MapElement(d, call.elementId, LAMBDA el : [imageData |-> png(call.template)] @@ el)
    ELSE IF outcome = "error"
    THEN MapElement(d, call.elementId,
                    LAMBDA el : [imageData |-> Undef, error |-> Str("failed")] @@ el)
    ELSE d

(* One event handled and rendered: the new document and selection, the     *)
(* selection repaired by the effect that follows the render.               *)
Rendered(op, d, sel, data, calls, todo) ==
    /\ lastOp' = op
    /\ doc' = d
    /\ selectedId' = RepairSelection(doc'.elements, sel)
    /\ previewData' = data
    /\ \E fx \in {refreshEffect(calls, todo, doc, previewData, doc', previewData')} :
          pending' = fx.pending /\ refresh' = fx.refresh
    /\ UNCHANGED <<zoom, moveZoom, saving, server, ean, validation, stationsPage>>

Handled(op, d, sel) ==
    /\ events' = events + 1
    /\ Rendered(op, d, sel, previewData, pending, refresh)

(* One event of the zoom controls, the wheel or a pan handled and          *)
(* rendered.  onPointerMoveViewport is memoised on [pan] and calls the     *)
(* onPointerMove of the render that made it, itself memoised on [zoom]:    *)
(* the zoom it divides by is the zoom of the last render in which pan      *)
(* changed.                                                                *)
Viewed(op, z, mz) ==
    /\ events' = events + 1
    /\ lastOp' = op
    /\ zoom' = z
    /\ moveZoom' = mz
    /\ UNCHANGED <<doc, selectedId, dragRef, resizeRef, labelId, labelName, uids>>
    /\ UNCHANGED <<previewData, pending, refresh, saving, server, ean, validation, stationsPage>>

AddText ==
    /\ events < MaxEvents /\ Released
    /\ Len(doc.elements) < MaxElements
    /\ Handled("addText", Append1(doc, addText(uids)), addText(uids).id)
    /\ uids' = uids + 1
    /\ UNCHANGED <<dragRef, resizeRef, labelId, labelName>>

AddRect ==
    /\ events < MaxEvents /\ Released
    /\ Len(doc.elements) < MaxElements
    /\ Handled("addRect", Append1(doc, addRect(uids)), addRect(uids).id)
    /\ uids' = uids + 1
    /\ UNCHANGED <<dragRef, resizeRef, labelId, labelName>>

(* addBarcode up to the await: the element is in the document and its     *)
(* image is asked for                                                      *)
AddBarcode ==
    /\ events < MaxEvents /\ Released
    /\ Len(doc.elements) < MaxElements
    /\ \E i \in 1..Len(barcodeTemplates) :
          LET template == findTemplate(barcodeTemplates[i].name)
              el == addBarcode(uids, template)
          IN  /\ events' = events + 1
              /\ Rendered("addBarcode", Append1(doc, el), el.id, previewData,
                          pending \cup {Call(template, el.id, FALSE)}, refresh)
    /\ uids' = uids + 1
    /\ UNCHANGED <<dragRef, resizeRef, labelId, labelName>>

(* The barcode API answers a call: the document changes, the refresh()    *)
(* that awaited the call goes on, then the render and its effect           *)
Answered ==
    /\ \E call \in pending : \E outcome \in {"png", "empty", "error"} :
       \E on \in {IF call.loop THEN refreshNext(pending \ {call}, refresh)
                  ELSE [pending |-> pending \ {call}, refresh |-> refresh]} :
          Rendered("generateBarcodeImage", generateBarcodeImage(doc, call, outcome),
                   selectedId, previewData, on.pending, on.refresh)
    /\ UNCHANGED <<dragRef, resizeRef, labelId, labelName, uids>>

(* An answer counted among the events of the exploration *)
GenerateResponse ==
    /\ events < MaxEvents
    /\ events' = events + 1
    /\ Answered

(* handleNomenclatureSelect: another option of the nomenclature select *)
SelectNomenclature ==
    /\ events < MaxEvents /\ Released
    /\ \E id \in {""} \cup nomenclatures :
          /\ id # previewData
          /\ events' = events + 1
          /\ Rendered("selectNomenclature", doc, selectedId, id, pending, refresh)
    /\ UNCHANGED <<dragRef, resizeRef, labelId, labelName, uids>>

AddAttribute ==
    /\ events < MaxEvents /\ Released
    /\ Len(doc.elements) < MaxElements
    /\ Handled("addAttribute", Append1(doc, addAttribute(uids, "name")),
               addAttribute(uids, "name").id)
    /\ uids' = uids + 1
    /\ UNCHANGED <<dragRef, resizeRef, labelId, labelName>>

(* A click on a row of the layer list *)
SelectLayer ==
    /\ events < MaxEvents /\ Released
    /\ \E i \in 1..Len(doc.elements) :
          /\ doc.elements[i].id # selectedId
          /\ Handled("select", doc, doc.elements[i].id)
    /\ UNCHANGED <<dragRef, resizeRef, labelId, labelName, uids>>

(* onPointerDownViewport without Ctrl, Alt or the middle button *)
Deselect ==
    /\ events < MaxEvents /\ Released
    /\ selectedId # Null
    /\ Handled("deselect", doc, Null)
    /\ UNCHANGED <<dragRef, resizeRef, labelId, labelName, uids>>

DeleteSelected ==
    /\ events < MaxEvents /\ Released
    /\ selected # Null
    /\ Handled("deleteSelected", deleteSelected(doc, selectedId), selectedId)
    /\ UNCHANGED <<dragRef, resizeRef, labelId, labelName, uids>>

(* The layer buttons, enabled while something is selected *)
MoveLayer ==
    /\ events < MaxEvents /\ Released
    /\ selectedId # Null
    /\ \E dir \in {"up", "down"} :
          Handled(dir, moveLayer(doc, selectedId, dir), selectedId)
    /\ UNCHANGED <<dragRef, resizeRef, labelId, labelName, uids>>

(* X, Y, W, H and rotation of the properties panel *)
EditGeometry ==
    /\ events < MaxEvents /\ Released
    /\ selected # Null
    /\ \E patch \in GeometryPatches :
          Handled("edit", updateSelected(doc, selectedId, patch), selectedId)
    /\ UNCHANGED <<dragRef, resizeRef, labelId, labelName, uids>>

EditText ==
    /\ events < MaxEvents /\ Released
    /\ selected # Null
    /\ selected.type = Str("text")
    /\ \E patch \in TextPatches :
          Handled("edit", updateSelected(doc, selectedId, patch), selectedId)
    /\ UNCHANGED <<dragRef, resizeRef, labelId, labelName, uids>>

EditRect ==
    /\ events < MaxEvents /\ Released
    /\ selected # Null
    /\ selected.type = Str("rect")
    /\ \E patch \in RectPatches :
          Handled("edit", updateSelected(doc, selectedId, patch), selectedId)
    /\ UNCHANGED <<dragRef, resizeRef, labelId, labelName, uids>>

EditBarcode ==
    /\ events < MaxEvents /\ Released
    /\ selected # Null
    /\ selected.type = Str("barcode")
    /\ \E patch \in BarcodePatches :
          Handled("edit", updateSelected(doc, selectedId, patch), selectedId)
    /\ UNCHANGED <<dragRef, resizeRef, labelId, labelName, uids>>

(* onPointerDownElement *)
PointerDownElement ==
    /\ events < MaxEvents /\ Released
    /\ \E i \in 1..Len(doc.elements) :
          LET el == doc.elements[findIndex(doc.elements, doc.elements[i].id) + 1]
          IN  /\ Handled("pointerDownElement", doc, el.id)
              /\ dragRef' = [active |-> TRUE, elementId |-> el.id,
                             offsetX |-> Lit(0), offsetY |-> Lit(0),
                             startX |-> el.x, startY |-> el.y]
    /\ UNCHANGED <<resizeRef, labelId, labelName, uids>>

(* onPointerDown of a resize handle of the selected element *)
PointerDownHandle ==
    /\ events < MaxEvents /\ Released
    /\ selected # Null
    /\ \E h \in Handles :
          resizeRef' = [active |-> TRUE, handle |-> h,
                        startX |-> PressAt.clientX, startY |-> PressAt.clientY,
                        initialElement |-> selected]
    /\ Handled("pointerDownHandle", doc, selectedId)
    /\ UNCHANGED <<dragRef, labelId, labelName, uids>>

PointerMove ==
    /\ events < MaxEvents
    /\ ~Released
    /\ \E e \in PointerMoves :
          Handled("pointerMove", onPointerMove(doc, dragRef, resizeRef, moveZoom, e),
                  selectedId)
    /\ UNCHANGED <<dragRef, resizeRef, labelId, labelName, uids>>

(* onPointerUp *)
PointerUp ==
    /\ events < MaxEvents
    /\ ~Released
    /\ IF resizeRef # Null /\ resizeRef.active
       THEN resizeRef' = Null /\ UNCHANGED dragRef
       ELSE dragRef' = Null /\ UNCHANGED resizeRef
    /\ Handled("pointerUp", doc, selectedId)
    /\ UNCHANGED <<labelId, labelName, uids>>

(* The zoom buttons: setZoom(z => Math.max(0.2, z - 0.1)) and             *)
(* setZoom(z => Math.min(5, z + 0.1))                                      *)
ZoomOut ==
    /\ events < MaxEvents /\ Released
    /\ Viewed("zoomOut", MathMax(JsNum(2), Sub(zoom, OneTenth)), moveZoom)

ZoomIn ==
    /\ events < MaxEvents /\ Released
    /\ Viewed("zoomIn", MathMin(Lit(5), Add(zoom, OneTenth)), moveZoom)

(* handleWheel: prevZoom * 1.05 or prevZoom / 1.05 within [0.1, 5].  The   *)
(* designer's numbers are kept to the tenth here, so a notch is the next   *)
(* tenth in its direction.  The wheel turns during a drag as well.         *)
wheelZoom(prevZoom, delta) ==
    MathMin(MathMax(IF delta > 0 THEN Add(prevZoom, OneTenth) ELSE Sub(prevZoom, OneTenth),
                    OneTenth),
            Lit(5))

Wheel ==
    /\ events < MaxEvents
    /\ \E deltaY \in {-100, 100} : Viewed("wheel", wheelZoom(zoom, 0 - deltaY), moveZoom)

(* The Reset button: setZoom(1) and setPan({ x: 0, y: 0 }) in one render *)
ResetView ==
    /\ events < MaxEvents /\ Released
    /\ Viewed("resetView", Lit(1), Lit(1))

(* A pan of the viewport (Ctrl, Alt or the middle button): setPan with a   *)
(* new object, so the render makes onPointerMoveViewport anew              *)
PanViewport ==
    /\ events < MaxEvents /\ Released
    /\ Viewed("pan", zoom, zoom)

(* toggleGrid, and the grid checkbox of the canvas settings *)
ToggleGrid ==
    /\ events < MaxEvents /\ Released
    /\ Handled("toggleGrid",
               [doc EXCEPT !.canvas.showGrid = JsBool(~Truthy(doc.canvas.showGrid))],
               selectedId)
    /\ UNCHANGED <<dragRef, resizeRef, labelId, labelName, uids>>

(* Width and height (cm) of the canvas settings *)
SetCanvasCm ==
    /\ events < MaxEvents /\ Released
    /\ LET v == PanelCm
           px == cmToPx(v, doc.canvas.dpi)
       IN  \/ Handled("canvas", [doc EXCEPT !.canvas.widthCm = v, !.canvas.width = px],
                      selectedId)
           \/ Handled("canvas", [doc EXCEPT !.canvas.heightCm = v, !.canvas.height = px],
                      selectedId)
    /\ UNCHANGED <<dragRef, resizeRef, labelId, labelName, uids>>

SetCanvasDpi ==
    /\ events < MaxEvents /\ Released
    /\ LET v == PanelDpi
           width == cmToPx(Or(doc.canvas.widthCm, Lit(10)), v)
           height == cmToPx(Or(doc.canvas.heightCm, Lit(6)), v)
       IN  Handled("canvas",
                   [doc EXCEPT !.canvas.dpi = v, !.canvas.width = width,
                               !.canvas.height = height],
                   selectedId)
    /\ UNCHANGED <<dragRef, resizeRef, labelId, labelName, uids>>

SetCanvasBackground ==
    /\ events < MaxEvents /\ Released
    /\ Handled("canvas", [doc EXCEPT !.canvas.background = Str("#ff0000")], selectedId)
    /\ UNCHANGED <<dragRef, resizeRef, labelId, labelName, uids>>

(* loadLabelEntry, confirmed by the user *)
LoadLabelEntry ==
    /\ events < MaxEvents /\ Released
    /\ \E label \in savedLabels : \E v \in {validateDoc(label.scheme)} :
              IF v # Null
              THEN /\ Handled("load", v, Null)
                   /\ labelId' = label.id
                   /\ labelName' = label.name
              ELSE /\ Handled("load refused", doc, selectedId)
                   /\ UNCHANGED <<labelId, labelName>>
    /\ UNCHANGED <<dragRef, resizeRef, uids>>

(* resetDoc, confirmed by the user *)
ResetDoc ==
    /\ events < MaxEvents /\ Released
    /\ Handled("reset", defaultDoc(uids), LastId(defaultDoc(uids).elements))
    /\ labelId' = Null
    /\ labelName' = Str("Novyi maket")
    /\ uids' = uids + 2
    /\ UNCHANGED <<dragRef, resizeRef>>

NextDesigner ==
    \/ AddText
    \/ AddRect
    \/ AddBarcode
    \/ GenerateResponse
    \/ SelectNomenclature
    \/ AddAttribute
    \/ SelectLayer
    \/ Deselect
    \/ DeleteSelected
    \/ MoveLayer
    \/ EditGeometry
    \/ EditText
    \/ EditRect
    \/ EditBarcode
    \/ PointerDownElement
    \/ PointerDownHandle
    \/ PointerMove
    \/ PointerUp
    \/ ZoomOut
    \/ ZoomIn
    \/ Wheel
    \/ ResetView
    \/ PanViewport
    \/ ToggleGrid
    \/ SetCanvasCm
    \/ SetCanvasDpi
    \/ SetCanvasBackground
    \/ LoadLabelEntry
    \/ ResetDoc

SpecDesigner == InitDesigner /\ [][NextDesigner]_vars

(* The designer with its barcodes alone: the handlers that add, change,    *)
(* select and delete elements and choose the nomenclature, and the answers *)
(* of the barcode API, which come whatever else happens: fetch resolves or *)
(* rejects in the end.                                                     *)
BarcodeAnswer == Answered /\ UNCHANGED events

NextBarcodes ==
    \/ AddBarcode
    \/ EditBarcode
    \/ SelectNomenclature
    \/ SelectLayer
    \/ DeleteSelected
    \/ BarcodeAnswer

SpecBarcodes == InitDesigner /\ [][NextBarcodes]_vars /\ WF_vars(BarcodeAnswer)

----------------------------------------------------------------------------
(* What the claims about the designer speak of *)

AtLeast(v, lo) == v.t = "number" /\ ~v.nan /\ lo.n <= v.n

ElementKeepsRanges(e) ==
    /\ Within(e.rotation, Lit(-360), Lit(360))
    /\ AtLeast(e.w, Lit(1))
    /\ AtLeast(e.h, Lit(1))
    /\ e.type = Str("text") => Within(e.fontSize, Lit(4), Lit(200))

(* C19: after any sequence of designer operations (adding an element,      *)
(* edits in the properties panel, drag, resize, canvas settings, load,     *)
(* reset) every element of the document has its rotation in [-360, 360],   *)
(* its w and h at least 1, and every text element its fontSize in          *)
(* [4, 200].                                                               *)
C19_ElementsKeepRanges ==
    \A i \in 1..Len(doc.elements) : ElementKeepsRanges(doc.elements[i])

(* The array with the items at the 1-based places i and j exchanged *)
Swap(a, i, j) ==
    [k \in 1..Len(a) |-> IF k = i THEN a[j] ELSE IF k = j THEN a[i] ELSE a[k]]

(* The 1-based place of the element with the given id, 0 if there is none *)
PlaceOf(a, id) == findIndex(a, id) + 1

ElementSet(a) == {a[i] : i \in 1..Len(a)}

(* The elements other than the one with the given id, in their order *)
Others(a, id) == SelectSeq(a, LAMBDA e : e.id # id)

(* What a press of the layer button does to the array, as the claim states *)
(* it: an exchange with the neighbour, nothing at the boundary.            *)
Raised(a, id) ==
    IF PlaceOf(a, id) < Len(a) THEN Swap(a, PlaceOf(a, id), PlaceOf(a, id) + 1) ELSE a

Lowered(a, id) ==
    IF PlaceOf(a, id) > 1 THEN Swap(a, PlaceOf(a, id), PlaceOf(a, id) - 1) ELSE a

(* A press of a layer button has just been handled *)
LayerMoved(dir) == lastOp' = dir

(* The swap, the boundary, the set of elements and the order of the others *)
MoveLayerSwaps ==
    /\ \A dir \in {"up", "down"} : moveLayer(doc, Null, dir) = doc
    /\ LayerMoved("up") =>
          doc' = [doc EXCEPT !.elements = Raised(doc.elements, selectedId)]
    /\ LayerMoved("down") =>
          doc' = [doc EXCEPT !.elements = Lowered(doc.elements, selectedId)]
    /\ (LayerMoved("up") \/ LayerMoved("down")) =>
          /\ selectedId' = selectedId
          /\ ElementSet(doc'.elements) = ElementSet(doc.elements)
          /\ Len(doc'.elements) = Len(doc.elements)
          /\ Others(doc'.elements, selectedId) = Others(doc.elements, selectedId)

(* C20 as stated: moveLayer(up) on a selected element that is not last     *)
(* swaps it with its successor, moveLayer(down) on one that is not first   *)
(* swaps it with its predecessor, at the boundary or with no selection the *)
(* document is unchanged, the set of elements and the order of the others  *)
(* are preserved, and after any up the following down gives back the       *)
(* order there was before the up.                                          *)
C20_UpThenDownRestores ==
    [][/\ MoveLayerSwaps
       /\ LayerMoved("up") =>
             Lowered(doc'.elements, selectedId') = doc.elements]_vars

(* C20: moveLayer(up) on a selected element that is not last swaps it with *)
(* its successor, moveLayer(down) on one that is not first swaps it with   *)
(* its predecessor, at the boundary or with no selection the document is   *)
(* unchanged, the set of elements and the order of the others are          *)
(* preserved, and after an up that moved the element the following down    *)
(* gives back the order there was before the up.                           *)
C20_MoveLayer ==
    [][/\ MoveLayerSwaps
       /\ (LayerMoved("up") /\ PlaceOf(doc.elements, selectedId) < Len(doc.elements)) =>
             Lowered(doc'.elements, selectedId') = doc.elements
       /\ (LayerMoved("down") /\ PlaceOf(doc.elements, selectedId) > 1) =>
             Raised(doc'.elements, selectedId') = doc.elements]_vars

(* The first layer of the sample document has been raised above the second *)
C20_Witness ==
    /\ lastOp = "up"
    /\ selectedId = defaultDoc(0).elements[1].id
    /\ doc.elements = <<defaultDoc(0).elements[2], defaultDoc(0).elements[1]>>

(* The document with the element of the given id shifted by the pointer    *)
(* movement of e over the zoom z, every other element as it was            *)
Dragged(d, id, e, z) ==
    [d EXCEPT !.elements =
        [i \in 1..Len(d.elements) |->
            IF d.elements[i].id = id
            THEN [d.elements[i] EXCEPT !.x = Add(d.elements[i].x, Div(e.movementX, z)),
                                       !.y = Add(d.elements[i].y, Div(e.movementY, z))]
            ELSE d.elements[i]]]

(* A pointer move has just been handled while an element was dragged *)
DragMoved == lastOp' = "pointerMove" /\ dragRef # Null /\ dragRef.active

(* C21: while an element is dragged, each pointer move shifts that element *)
(* by the pointer movement divided by the zoom current at the time of the  *)
(* event, also when the zoom was changed after the last pan change; no     *)
(* other element moves.                                                    *)
C21_DragByCurrentZoom ==
    [][DragMoved =>
          \E e \in PointerMoves : doc' = Dragged(doc, dragRef.elementId, e, zoom)]_vars

(* Ids uid() hands out within one exploration *)
ElementUids == {uid(k) : k \in 0..(MaxEvents + 1)}

IsBarcode(id) ==
    \E i \in 1..Len(doc.elements) :
        doc.elements[i].id = id /\ doc.elements[i].type = Str("barcode")

(* The barcode of the given id has no imageData and its template is found *)
LacksImage(id) ==
    \E i \in 1..Len(doc.elements) :
        /\ doc.elements[i].id = id
        /\ NoImage(doc.elements[i])
        /\ templateOf(doc.elements[i]) # Undef

(* A call of generateBarcodeImage for the element is in flight *)
Requested(id) == \E call \in pending : call.elementId = id

(* C22: whenever the preview data changes (another nomenclature is         *)
(* selected) while barcode templates are loaded, an image is eventually    *)
(* requested anew for every barcode element of the document, and whenever  *)
(* a barcode element has no imageData and a matching template exists, an   *)
(* image is eventually requested for it.                                   *)
C22_BarcodesRefreshed ==
    \A id \in ElementUids :
        /\ (lastOp = "selectNomenclature" /\ IsBarcode(id))
               ~> (Requested(id) \/ ~IsBarcode(id))
        /\ LacksImage(id) ~> (Requested(id) \/ ~LacksImage(id))

(* The selection is null or names an element of the document *)
SelectionPresent ==
    selectedId = Null \/ \E i \in 1..Len(doc.elements) : doc.elements[i].id = selectedId

(* C23: once the effects have settled after any operation, selectedId is   *)
(* null or the id of an element of doc.elements; after deleteSelected the  *)
(* deleted element is gone and the selection is the last element of        *)
(* doc.elements, or null when none is left.                                *)
C23_SelectionRepaired ==
    [][/\ SelectionPresent
       /\ SelectionPresent'
       /\ lastOp' = "deleteSelected" =>
             /\ \A i \in 1..Len(doc'.elements) : doc'.elements[i].id # selectedId
             /\ Others(doc.elements, selectedId) = doc'.elements
             /\ selectedId' = IF doc'.elements = <<>> THEN Null
                              ELSE doc'.elements[Len(doc'.elements)].id]_vars

(* The last element has been deleted and nothing is selected *)
C23_Witness ==
    lastOp = "deleteSelected" /\ doc.elements = <<>> /\ selectedId = Null

(* Every image in the document is the image of the template its element   *)
(* names now                                                               *)
ImagesCurrent ==
    \A i \in 1..Len(doc.elements) :
        (doc.elements[i].type = Str("barcode") /\ Truthy(doc.elements[i].imageData)) =>
            /\ templateOf(doc.elements[i]) # Undef
            /\ doc.elements[i].imageData = png(templateOf(doc.elements[i]))

(* An answer of the barcode API changes only elements a call was made for, *)
(* so none when the element of the call is no longer there                 *)
AnswerKeepsOthers ==
    lastOp' = "generateBarcodeImage" =>
        /\ Len(doc'.elements) = Len(doc.elements)
        /\ \A i \in 1..Len(doc.elements) :
              doc'.elements[i] # doc.elements[i] => Requested(doc.elements[i].id)

(* C24: whenever a barcode element has imageData, that image was generated *)
(* from the template the element's barcodeType and templateId name now: an *)
(* answer to a call made for a previous template, arriving after the type  *)
(* was changed, never becomes the element's imageData; and an answer for   *)
(* an element deleted meanwhile changes nothing.                           *)
C24_ImageOfCurrentTemplate ==
    [][ImagesCurrent /\ ImagesCurrent' /\ AnswerKeepsOthers]_vars

----------------------------------------------------------------------------
(* The stations page (app/stations/page.tsx) and the stations API          *)

(* Number of fetch fetches of the page the exploration follows *)
MaxCalls == 4

(* The stations the API holds when the page opens, in the order of a list  *)
AllStations == <<"s1", "s2">>

Station(uuid) == [station_uuid |-> uuid]

(* GET /stations/ : the rows the service holds *)
listBody(held) ==
    LET Held(u) == u \in held
        kept == SelectSeq(AllStations, Held)
    IN  [i \in 1..Len(kept) |-> Station(kept[i])]

ListCall(n, silent) ==
    [id |-> n, kind |-> "list", uuid |-> "", silent |-> silent,
     state |-> "sent", ok |-> FALSE, body |-> <<>>]

DeleteCall(n, uuid) ==
    [id |-> n, kind |-> "delete", uuid |-> uuid, silent |-> TRUE,
     state |-> "sent", ok |-> FALSE, body |-> <<>>]

(* prev.filter((s) => s.station_uuid !== uuid) *)
withoutStation(prev, uuid) ==
    LET Other(st) == st.station_uuid # uuid
    IN  SelectSeq(prev, Other)

(* First render and the mount effect: fetchStations() is under way *)
InitStations ==
    /\ ServerOff
    /\ EanIdle
    /\ NoValidation
    /\ DesignerClosed
    /\ remote = {AllStations[i] : i \in 1..Len(AllStations)}
    /\ stations = <<>>
    /\ isLoading = TRUE
    /\ fetches = {ListCall(0, FALSE)}
    /\ sent = 1
    /\ deleted = {}

(* setInterval(() => fetchStations(true), 5000): up to the await *)
Poll ==
    /\ sent < MaxCalls
    /\ fetches' = fetches \cup {ListCall(sent, TRUE)}
    /\ sent' = sent + 1
    /\ UNCHANGED <<remote, stations, isLoading, deleted>>
    /\ UNCHANGED <<server, ean, validation, designer>>

(* deleteStation(uuid) of a row shown, confirmed: up to the await *)
DeleteStation ==
    /\ sent < MaxCalls
    /\ \E i \in 1..Len(stations) :
          fetches' = fetches \cup {DeleteCall(sent, stations[i].station_uuid)}
    /\ sent' = sent + 1
    /\ UNCHANGED <<remote, stations, isLoading, deleted>>
    /\ UNCHANGED <<server, ean, validation, designer>>

(* The service handles one request of the page *)
Serve ==
    /\ \E call \in fetches :
          /\ call.state = "sent"
          /\ \/ /\ call.kind = "list"
                /\ \E ok \in BOOLEAN :
                      fetches' = (fetches \ {call}) \cup
                          {[call EXCEPT !.state = "served", !.ok = ok,
                               !.body = IF ok THEN listBody(remote) ELSE <<>>]}
                /\ remote' = remote
             \/ /\ call.kind = "delete"
                /\ fetches' = (fetches \ {call}) \cup
                      {[call EXCEPT !.state = "served", !.ok = (call.uuid \in remote)]}
                /\ remote' = remote \ {call.uuid}
    /\ UNCHANGED <<stations, isLoading, sent, deleted>>
    /\ UNCHANGED <<server, ean, validation, designer>>

(* fetchStations after the await: setStations(data), or the catch; finally *)
ListSettled ==
    /\ \E call \in fetches :
          /\ call.state = "served" /\ call.kind = "list"
          /\ fetches' = fetches \ {call}
          /\ stations' = IF call.ok THEN call.body ELSE stations
          /\ isLoading' = IF call.silent THEN isLoading ELSE FALSE
    /\ UNCHANGED <<remote, sent, deleted>>
    /\ UNCHANGED <<server, ean, validation, designer>>

(* deleteStation after the await: the filter, or the alert of the catch *)
DeleteSettled ==
    /\ \E call \in fetches :
          /\ call.state = "served" /\ call.kind = "delete"
          /\ fetches' = fetches \ {call}
          /\ stations' = IF call.ok THEN withoutStation(stations, call.uuid) ELSE stations
          /\ deleted' = IF call.ok THEN deleted \cup {call.uuid} ELSE deleted
    /\ UNCHANGED <<remote, isLoading, sent>>
    /\ UNCHANGED <<server, ean, validation, designer>>

NextStations == Poll \/ DeleteStation \/ Serve \/ ListSettled \/ DeleteSettled

SpecStations == InitStations /\ [][NextStations]_vars

Shown(uuid) == \E i \in 1..Len(stations) : stations[i].station_uuid = uuid

(* C25: after deleteStation(uuid) has succeeded the station is never shown *)
(* in the list again, whatever the interleaving with the polling: a list   *)
(* answer asked for before the deletion and received after it does not put *)
(* the station back.                                                       *)
C25_DeletedStaysGone == \A uuid \in deleted : ~Shown(uuid)

----------------------------------------------------------------------------
(* Saving the label: saveToApi and the labels API                          *)

(* What window.prompt returns: null when cancelled, else the text typed *)
PromptAnswers == {Null, Str(<<>>), Str(<<"X">>)}

(* Ids of the labels the select offers are 7 and 8; the service numbers a  *)
(* label it creates after them, never twice the same                       *)
FirstNewId == 9

createdId == Lit(FirstNewId + events)

(* A call of saveToApi that has reached its await: the labelId of its      *)
(* closure and the payload it sent                                         *)
SaveCall(kind, name) ==
    [kind |-> kind, labelId |-> labelId, name |-> name, scheme |-> doc]

Saved(op, id, name, call) ==
    /\ events' = events + 1
    /\ lastOp' = op
    /\ labelId' = id
    /\ labelName' = name
    /\ saving' = call
    /\ UNCHANGED <<doc, selectedId, zoom, moveZoom, dragRef, resizeRef, uids>>
    /\ UNCHANGED <<previewData, pending, refresh, server, ean, validation, stationsPage>>

(* saveToApi up to its await; the Save button is disabled while isLoading, *)
(* which is true exactly while a call awaits its answer                    *)
SaveToApi ==
    /\ events < MaxEvents /\ Released
    /\ saving = Null
    /\ IF Truthy(labelId)
       THEN Saved("save", labelId, labelName, SaveCall("update", labelName))
       ELSE \E name \in PromptAnswers :
               IF ~Truthy(name)
               THEN Saved("save cancelled", labelId, labelName, Null)
               ELSE Saved("save", labelId, name, SaveCall("create", name))

(* saveToApi after its await: setLabelId(created.id) when the create was   *)
(* answered, the catch when the call was rejected; finally                 *)
SaveSettled ==
    /\ events < MaxEvents
    /\ saving # Null
    /\ \E ok \in BOOLEAN :
          Saved("saveSettled",
                IF ok /\ saving.kind = "create" THEN createdId ELSE labelId,
                labelName, Null)

NextSaving == SaveToApi \/ SaveSettled \/ LoadLabelEntry \/ ResetDoc \/ AddText

SpecSaving == InitDesigner /\ [][NextSaving]_vars

(* C26: labelId is null or the id of the saved label the document was     *)
(* loaded from or last saved to: when a create call of saveToApi awaits   *)
(* its answer and the user loads another label, the late answer does not  *)
(* make labelId point at another label.                                   *)
C26_LateCreateIgnored ==
    [][(lastOp' = "saveSettled" /\ labelId # saving.labelId) => labelId' = labelId]_vars

====
